---- MODULE Spec2Model ----
(***************************************************************************)
(* Session graph data model (data_models/session_graph.py) and the         *)
(* structural edit handlers of SessionFlowEditorWidget                     *)
(* (gui/widgets/session_flow_editor_widget.py).                            *)
(*                                                                         *)
(* A node id is a uuid4 string in the source.  Ids are modelled as the     *)
(* positive integers handed out by a counter (a fresh id is never equal to *)
(* an id generated earlier); None is modelled as 0, which is falsy like    *)
(* None in the `if x.parent_node_id:` tests of the source.                 *)
(***************************************************************************)
EXTENDS Integers, Sequences, FiniteSets, TLC

\* Number of handler invocations in a run.
MaxEdits == 3

\* The largest id that appears in a session file handed to from_dict.
MaxFileId == 5

None == 0

\* The empty string as an id or reference in a session file: not None, and
\* falsy like None in the `if not node_id` and `if node.parent_node_id and`
\* tests of the data model.
EmptyId == 0 - 1

\* not x
Falsy(x) == x \in {None, EmptyId}

\* The keys of ProjectData.action_definitions that the user picks in
\* SelectActionLabelDialog during a run.
PickedLabels == {"OpenDoor"}

\* the answers to a QMessageBox.question with the buttons Yes | No
Replies == {"Yes", "No"}

VARIABLES
    steps,             \* SessionActionsGraph.steps : list of StepDefinition
    nodes,             \* SessionActionsGraph.nodes : list of ActionNode
    nodes_by_id,       \* SessionActionsGraph._nodes_by_id
    action_clipboard,  \* SessionFlowEditorWidget._action_clipboard
    branch_clipboard,  \* SessionFlowEditorWidget._branch_clipboard
    step_clipboard,    \* SessionFlowEditorWidget._step_clipboard
    next_node_id,      \* next uuid handed to an ActionNode
    next_step_id,      \* next uuid handed to a StepDefinition
    current_session_name, \* session_name of the graph in memory ("": none was built)
    session_file,      \* the dict that to_dict returned or that from_dict is given
    load_error,        \* the ValueError of the last from_dict, NoError if none
    field_args,        \* the arguments given to a field definition's constructor
    field_object,      \* the field definition built last, if any
    field_error,       \* the ValueError of the last field construction, NoError if none
    field_default,     \* what get_default_value_for_type returned last, if it returned
    current_project_data, \* MainWindow.current_project_data : ProjectData
    project_file,      \* the dict that save_project wrote to the project file, if it did
    project_outcome,   \* what the last call that can raise raised or returned
    last,              \* the handler that ran last, its argument, and whether it got past its guards
    edits              \* number of handler invocations so far

vars == <<steps, nodes, nodes_by_id, action_clipboard, branch_clipboard,
          step_clipboard, next_node_id, next_step_id, current_session_name, session_file,
          load_error, field_args, field_object, field_error, field_default,
          current_project_data, project_file, project_outcome, last, edits>>

----------------------------------------------------------------------------
\* Python list helpers

Range(s) == {s[i] : i \in DOMAIN s}

\* [f(x) for x in s]
RECURSIVE Replace(_, _, _)
Replace(s, old, new) ==
    IF s = <<>> THEN <<>>
    ELSE <<IF Head(s) = old THEN new ELSE Head(s)>> \o Replace(Tail(s), old, new)

\* the loop `if x == old: out.extend(ins) else: out.append(x)`
RECURSIVE Splice(_, _, _)
Splice(s, old, ins) ==
    IF s = <<>> THEN <<>>
    ELSE (IF Head(s) = old THEN ins ELSE <<Head(s)>>) \o Splice(Tail(s), old, ins)

\* list.remove(x): drops the first occurrence
RECURSIVE ListRemove(_, _)
ListRemove(s, x) ==
    IF s = <<>> THEN <<>>
    ELSE IF Head(s) = x THEN Tail(s)
    ELSE <<Head(s)>> \o ListRemove(Tail(s), x)

----------------------------------------------------------------------------
\* ActionNode, StepDefinition, SessionActionsGraph

\* ActionNode.__init__ with instance_label and custom_field_values left at
\* their defaults; a dict of field values is the set of its (name, value) items
ActionNode(label, id, parent, children) ==
    [node_id |-> id, action_label_to_execute |-> label,
     parent_node_id |-> parent, children_node_ids |-> children,
     instance_label |-> "", custom_field_values |-> {}]

\* A faulty copy: the instance label is carried over, the field values are not.
CopiedInstanceLabelOnly(node, copied) ==
    [node EXCEPT !.instance_label = copied.instance_label]

\* ActionNode(..., instance_label=copied.instance_label,
\*            custom_field_values=copy.deepcopy(copied.custom_field_values))
CopiedInstance(node, copied) ==
    [node EXCEPT !.instance_label = copied.instance_label,
                 !.custom_field_values = copied.custom_field_values]

StepDefinition(id, roots) == [step_id |-> id, root_node_ids |-> roots]

NodeIds(ns) == {ns[i].node_id : i \in DOMAIN ns}

\* {node.node_id: node for node in self.nodes}.  A value of the dict is a
\* reference to a node object that the nodes list holds too, so a write to a
\* node is seen through both.  The reference is modelled by the object's id:
\* no two node objects of a graph carry the same id (the constructor rejects
\* a list with a duplicated id, and a created node gets a fresh one).
rebuild_node_lookup(ns) == [id \in NodeIds(ns) |-> id]

\* self._nodes_by_id.get(node_id) is not None
HasNode(idx, id) == id \in DOMAIN idx

\* The node object with this id.  Node objects are shared between the nodes
\* list and the index, so an object's fields are read from the list being
\* edited.
NodeOf(ns, id) == ns[CHOOSE i \in DOMAIN ns : ns[i].node_id = id]

\* node.parent_node_id = p, seen in the list that holds the node
RECURSIVE SetParent(_, _, _)
SetParent(ns, id, p) ==
    IF ns = <<>> THEN <<>>
    ELSE <<IF Head(ns).node_id = id
           THEN [Head(ns) EXCEPT !.parent_node_id = p] ELSE Head(ns)>>
         \o SetParent(Tail(ns), id, p)

\* node.children_node_ids = c, seen in the list that holds the node
RECURSIVE SetChildren(_, _, _)
SetChildren(ns, id, c) ==
    IF ns = <<>> THEN <<>>
    ELSE <<IF Head(ns).node_id = id
           THEN [Head(ns) EXCEPT !.children_node_ids = c] ELSE Head(ns)>>
         \o SetChildren(Tail(ns), id, c)

\* for child_id in ids: node = get_node_by_id(child_id); if node: node.parent_node_id = p
RECURSIVE SetParentOfAll(_, _, _, _)
SetParentOfAll(ns, idx, ids, p) ==
    IF ns = <<>> THEN <<>>
    ELSE <<IF Head(ns).node_id \in ids /\ HasNode(idx, Head(ns).node_id)
           THEN [Head(ns) EXCEPT !.parent_node_id = p] ELSE Head(ns)>>
         \o SetParentOfAll(Tail(ns), idx, ids, p)

\* [n for n in nodes if n.node_id not in dead]
RECURSIVE DropNodes(_, _)
DropNodes(ns, dead) ==
    IF ns = <<>> THEN <<>>
    ELSE (IF Head(ns).node_id \in dead THEN <<>> ELSE <<Head(ns)>>) \o DropNodes(Tail(ns), dead)

\* for step_def in steps: if id in step_def.root_node_ids: ...; break
StepWithRoot(ss, id) ==
    IF \E i \in DOMAIN ss : id \in Range(ss[i].root_node_ids)
    THEN CHOOSE i \in DOMAIN ss :
            /\ id \in Range(ss[i].root_node_ids)
            /\ \A j \in DOMAIN ss : id \in Range(ss[j].root_node_ids) => i <= j
    ELSE 0

SetRoots(ss, i, roots) == [ss EXCEPT ![i].root_node_ids = roots]

\* the breadth-first walk `queue.pop(0) ... queue.extend(node.children_node_ids)`:
\* the node objects found, in visiting order
RECURSIVE CollectNodes(_, _, _, _, _)
CollectNodes(ns, idx, queue, processed, out) ==
    IF queue = <<>> THEN out
    ELSE LET id == Head(queue) IN
         IF id \in processed THEN CollectNodes(ns, idx, Tail(queue), processed, out)
         ELSE IF HasNode(idx, id)
              THEN CollectNodes(ns, idx, Tail(queue) \o NodeOf(ns, id).children_node_ids,
                                processed \cup {id}, Append(out, NodeOf(ns, id)))
              ELSE CollectNodes(ns, idx, Tail(queue), processed \cup {id}, out)

\* the same walk, returning the set of ids it marked (found in the index or not)
RECURSIVE CollectIds(_, _, _, _)
CollectIds(ns, idx, queue, processed) ==
    IF queue = <<>> THEN processed
    ELSE LET id == Head(queue) IN
         IF id \in processed THEN CollectIds(ns, idx, Tail(queue), processed)
         ELSE IF HasNode(idx, id)
              THEN CollectIds(ns, idx, Tail(queue) \o NodeOf(ns, id).children_node_ids,
                              processed \cup {id})
              ELSE CollectIds(ns, idx, Tail(queue), processed \cup {id})

\* SessionActionsGraph._validate_graph_integrity does not raise
validate_graph_integrity(ss, ns) ==
    /\ \A i, j \in DOMAIN ns : ns[i].node_id = ns[j].node_id => i = j
    /\ \A i \in DOMAIN ss : ~Falsy(ss[i].step_id)
    /\ \A i \in DOMAIN ss : Range(ss[i].root_node_ids) \subseteq NodeIds(ns)
    /\ \A i \in DOMAIN ns :
          /\ ~Falsy(ns[i].parent_node_id) => ns[i].parent_node_id \in NodeIds(ns)
          /\ Range(ns[i].children_node_ids) \subseteq NodeIds(ns)

\* ValueError raised by the data model: the message's kind and the names it
\* carries (the session, the step or node that holds the reference, the id)
ValueError(kind, session, owner, id) ==
    [kind |-> kind, session |-> session, owner |-> owner, id |-> id]

\* no exception
NoError == ValueError("", "", None, None)

\* the first node id of ns already in node_ids_defined (None: there is none)
RECURSIVE FirstDuplicate(_, _)
FirstDuplicate(ns, node_ids_defined) ==
    IF ns = <<>> THEN None
    ELSE IF Head(ns).node_id \in node_ids_defined THEN Head(ns).node_id
         ELSE FirstDuplicate(Tail(ns), node_ids_defined \cup {Head(ns).node_id})

\* the first entry of ids that is not in node_ids_defined (None: there is none)
RECURSIVE FirstUndefined(_, _)
FirstUndefined(ids, node_ids_defined) ==
    IF ids = <<>> THEN None
    ELSE IF Head(ids) \notin node_ids_defined THEN Head(ids)
         ELSE FirstUndefined(Tail(ids), node_ids_defined)

\* the loop over self.steps of _validate_graph_integrity
RECURSIVE StepsError(_, _, _)
StepsError(session_name, ss, node_ids_defined) ==
    IF ss = <<>> THEN NoError
    ELSE LET step == Head(ss)
             root_node_id == FirstUndefined(step.root_node_ids, node_ids_defined)
         IN IF Falsy(step.step_id)
            THEN ValueError("step_id is missing", session_name, None, None)
            ELSE IF root_node_id # None
                 THEN ValueError("rootNodeId not found", session_name, step.step_id,
                                 root_node_id)
                 ELSE StepsError(session_name, Tail(ss), node_ids_defined)

\* A faulty second loop that checks the parents only.
RECURSIVE LinksError_parents_only(_, _, _)
LinksError_parents_only(session_name, ns, node_ids_defined) ==
    IF ns = <<>> THEN NoError
    ELSE IF /\ ~Falsy(Head(ns).parent_node_id)
            /\ Head(ns).parent_node_id \notin node_ids_defined
         THEN ValueError("parentNodeId not found", session_name, Head(ns).node_id,
                         Head(ns).parent_node_id)
         ELSE LinksError_parents_only(session_name, Tail(ns), node_ids_defined)

\* the second loop over self.nodes of _validate_graph_integrity
RECURSIVE LinksError(_, _, _)
LinksError(session_name, ns, node_ids_defined) ==
    IF ns = <<>> THEN NoError
    ELSE LET node == Head(ns)
             child_id == FirstUndefined(node.children_node_ids, node_ids_defined)
         IN IF ~Falsy(node.parent_node_id) /\ node.parent_node_id \notin node_ids_defined
            THEN ValueError("parentNodeId not found", session_name, node.node_id,
                            node.parent_node_id)
            ELSE IF child_id # None
                 THEN ValueError("childNodeId not found", session_name, node.node_id,
                                 child_id)
                 ELSE LinksError(session_name, Tail(ns), node_ids_defined)

\* SessionActionsGraph._validate_graph_integrity: the ValueError it raises
validation_error(session_name, ss, ns) ==
    LET duplicate == FirstDuplicate(ns, {})
        steps_error == StepsError(session_name, ss, NodeIds(ns))
    IN IF duplicate # None
       THEN ValueError("Duplicate nodeId", session_name, None, duplicate)
       ELSE IF steps_error # NoError THEN steps_error
            ELSE LinksError(session_name, ns, NodeIds(ns))

\* A faulty validation without the duplicate check of the first loop.
SessionActionsGraph_no_duplicate_check(session_name, ss, ns) ==
    LET error == IF StepsError(session_name, ss, NodeIds(ns)) # NoError
                 THEN StepsError(session_name, ss, NodeIds(ns))
                 ELSE LinksError(session_name, ns, NodeIds(ns))
    IN [error |-> error, steps |-> ss, nodes |-> ns]

\* SessionActionsGraph.__init__: the exception it raises or the graph it builds
SessionActionsGraph(session_name, ss, ns) ==
    LET error == IF session_name = ""
                 THEN ValueError("session_name cannot be empty", "", None, None)
                 ELSE validation_error(session_name, ss, ns)
    IN [error |-> error, steps |-> ss, nodes |-> ns]

----------------------------------------------------------------------------
\* to_dict / from_dict.  A dict is a function on its keys; a key that the
\* dict lacks is outside its domain.

\* data.get(key, default)
Get(data, key, default) == IF key \in DOMAIN data THEN data[key] ELSE default

\* A faulty ActionNode.to_dict that never writes the parentNodeId key.
ActionNode_to_dict_no_parent(node) ==
    [nodeId |-> node.node_id,
     actionLabelToExecute |-> node.action_label_to_execute,
     childrenNodeIds |-> node.children_node_ids,
     instanceLabel |-> node.instance_label,
     customFieldValues |-> node.custom_field_values]

\* ActionNode.to_dict
ActionNode_to_dict(node) ==
    LET data == [nodeId |-> node.node_id,
                 actionLabelToExecute |-> node.action_label_to_execute,
                 childrenNodeIds |-> node.children_node_ids,
                 instanceLabel |-> node.instance_label,
                 customFieldValues |-> node.custom_field_values]
    IN IF node.parent_node_id # None
       THEN [key \in DOMAIN data \cup {"parentNodeId"} |->
                IF key = "parentNodeId" THEN node.parent_node_id ELSE data[key]]
       ELSE data

\* ActionNode.from_dict: the exception it raises (node None) or the node
ActionNode_from_dict(data) ==
    LET node_id == Get(data, "nodeId", None)
        action_label == Get(data, "actionLabelToExecute", "")
    IN IF Falsy(node_id)
       THEN [error |-> ValueError("nodeId is required", "", None, None), node |-> None]
       ELSE IF action_label = ""
            THEN [error |-> ValueError("actionLabelToExecute is required", "", None, node_id),
                  node |-> None]
            ELSE [error |-> NoError,
                  node |-> [ActionNode(action_label, node_id,
                                       Get(data, "parentNodeId", None),
                                       Get(data, "childrenNodeIds", <<>>))
                               EXCEPT !.instance_label = Get(data, "instanceLabel", ""),
                                      !.custom_field_values =
                                          Get(data, "customFieldValues", {})]]

\* StepDefinition.to_dict
StepDefinition_to_dict(step) ==
    [stepId |-> step.step_id, rootNodeIds |-> step.root_node_ids]

\* StepDefinition.from_dict; uuid is the id that uuid.uuid4() would hand out
StepDefinition_from_dict(data, uuid) ==
    LET step_id == Get(data, "stepId", None)
    IN StepDefinition(IF ~Falsy(step_id) THEN step_id ELSE uuid,
                      Get(data, "rootNodeIds", <<>>))

\* sorted(dicts, key=lambda n: n["nodeId"]): stable, by insertion
RECURSIVE InsertSorted(_, _)
InsertSorted(sorted, d) ==
    IF sorted = <<>> THEN <<d>>
    ELSE IF sorted[Len(sorted)].nodeId <= d.nodeId THEN Append(sorted, d)
         ELSE Append(InsertSorted(SubSeq(sorted, 1, Len(sorted) - 1), d),
                     sorted[Len(sorted)])

RECURSIVE SortedByNodeId(_)
SortedByNodeId(dicts) ==
    IF dicts = <<>> THEN <<>>
    ELSE InsertSorted(SortedByNodeId(SubSeq(dicts, 1, Len(dicts) - 1)), dicts[Len(dicts)])

\* [x.to_dict() for x in xs]
RECURSIVE NodesToDicts(_)
NodesToDicts(ns) ==
    IF ns = <<>> THEN <<>> ELSE <<ActionNode_to_dict(Head(ns))>> \o NodesToDicts(Tail(ns))

RECURSIVE StepsToDicts(_)
StepsToDicts(ss) ==
    IF ss = <<>> THEN <<>> ELSE <<StepDefinition_to_dict(Head(ss))>> \o StepsToDicts(Tail(ss))

\* A faulty serialization that emits the nodes in list order.
to_dict_unsorted(session_name, ss, ns) ==
    [sessionName |-> session_name, steps |-> StepsToDicts(ss), nodes |-> NodesToDicts(ns)]

\* SessionActionsGraph.to_dict
to_dict(session_name, ss, ns) ==
    [sessionName |-> session_name,
     steps |-> StepsToDicts(ss),
     nodes |-> SortedByNodeId(NodesToDicts(ns))]

\* [StepDefinition.from_dict(d) for d in steps_data]; uuid is the next fresh id
RECURSIVE StepsFromDicts(_, _)
StepsFromDicts(steps_data, uuid) ==
    IF steps_data = <<>> THEN <<>>
    ELSE <<StepDefinition_from_dict(Head(steps_data), uuid)>>
         \o StepsFromDicts(Tail(steps_data),
                           IF Falsy(Get(Head(steps_data), "stepId", None))
                           THEN uuid + 1 ELSE uuid)

\* [ActionNode.from_dict(d) for d in nodes_data], up to the first exception
RECURSIVE NodesFromDicts(_)
NodesFromDicts(nodes_data) ==
    IF nodes_data = <<>> THEN [error |-> NoError, nodes |-> <<>>]
    ELSE LET first == ActionNode_from_dict(Head(nodes_data))
             rest == NodesFromDicts(Tail(nodes_data))
         IN IF first.error # NoError THEN [error |-> first.error, nodes |-> <<>>]
            ELSE [error |-> rest.error,
                  nodes |-> IF rest.error = NoError THEN <<first.node>> \o rest.nodes
                            ELSE <<>>]

\* the number of uuids StepsFromDicts draws
RECURSIVE MissingStepIds(_)
MissingStepIds(steps_data) ==
    IF steps_data = <<>> THEN 0
    ELSE (IF Falsy(Get(Head(steps_data), "stepId", None)) THEN 1 ELSE 0)
         + MissingStepIds(Tail(steps_data))

\* SessionActionsGraph.from_dict: the exception it raises or the graph it builds
from_dict(data, uuid) ==
    LET session_name == Get(data, "sessionName", "")
        steps_list == StepsFromDicts(Get(data, "steps", <<>>), uuid)
        nodes_list == NodesFromDicts(Get(data, "nodes", <<>>))
    IN IF session_name = ""
       THEN [error |-> ValueError("sessionName is required", "", None, None),
             steps |-> <<>>, nodes |-> <<>>]
       ELSE IF nodes_list.error # NoError
            THEN [error |-> nodes_list.error, steps |-> <<>>, nodes |-> <<>>]
            ELSE SessionActionsGraph(session_name, steps_list, nodes_list.nodes)

----------------------------------------------------------------------------
\* Field definitions.  An Optional argument is a sequence: empty for None,
\* of one element for a value.

Nothing == <<>>
Some(value) == <<value>>

\* A Python value held by a field is a record that names its type: [bool |-> b],
\* [str |-> s], [number |-> n] (0.0 == 0), [dict |-> d], and [none |-> None] for
\* None as a returned value.

\* common_types.FieldType: the members' names and their string values
FieldTypeMembers ==
    [BOOLEAN |-> "boolean", STRING |-> "string", FLOAT |-> "float", INTEGER |-> "integer",
     VECTOR2 |-> "Vector2", VECTOR3 |-> "Vector3", QUATERNION |-> "Quaternion",
     COLOR_RGBA |-> "ColorRGBA", ENUM_STRING |-> "EnumString",
     ASSET_PATH_STRING |-> "AssetPathString",
     ITEM_LABEL_REFERENCE |-> "ItemLabelReference"]

\* common_types.FieldType: the members' string values
FieldType ==
    {"boolean", "string", "float", "integer", "Vector2", "Vector3", "Quaternion",
     "ColorRGBA", "EnumString", "AssetPathString", "ItemLabelReference"}

\* the strings offered as enum values, in sorted order
EnumAlphabet == <<"fast", "slow">>

\* sorted(list(set(enum_values)))
SortedUnique(enum_values) ==
    SelectSeq(EnumAlphabet, LAMBDA v : v \in Range(enum_values))

\* CustomFieldDefinition.__init__: the exception it raises or the object
CustomFieldDefinition(field_name, field_type, default_value, enum_values) ==
    IF field_name = ""
    THEN [error |-> ValueError("field_name cannot be empty", "", None, None),
          object |-> Nothing]
    ELSE [error |-> NoError,
          object |-> Some([field_name |-> field_name,
                           field_type |-> field_type,
                           default_value |-> default_value,
                           enum_values |-> IF enum_values # Nothing
                                           THEN Some(enum_values[1]) ELSE Some(<<>>)])]

\* SubActionFieldDefinition.__init__: the exception it raises or the object
SubActionFieldDefinition(field_name, field_type, default_value, enum_values) ==
    IF field_name = ""
    THEN [error |-> ValueError("Field name cannot be empty", "", None, None),
          object |-> Nothing]
    ELSE IF field_type \notin FieldType
    THEN [error |-> ValueError("field_type must be an instance of FieldType enum", "",
                               None, None),
          object |-> Nothing]
    ELSE IF field_type = "EnumString" /\ (enum_values = Nothing \/ enum_values[1] = <<>>)
    THEN [error |-> ValueError("enum_values must be a non-empty list of strings", "",
                               None, None),
          object |-> Nothing]
    ELSE [error |-> NoError,
          object |-> Some([field_name |-> field_name,
                           field_type |-> field_type,
                           default_value |-> default_value,
                           enum_values |-> IF field_type = "EnumString"
                                           THEN Some(SortedUnique(enum_values[1]))
                                           ELSE Nothing])]

\* the root ids of all steps, in display order
RECURSIVE AllRoots(_)
AllRoots(ss) ==
    IF ss = <<>> THEN <<>> ELSE Head(ss).root_node_ids \o AllRoots(Tail(ss))

\* The nodes for which _layout_action_branch_recursive builds a card (those
\* reachable from a step root through children lists): the context menus and
\* hover buttons hand these node objects, or their ids, to the handlers.
Cards == CollectIds(nodes, nodes_by_id, AllRoots(steps), {}) \cap DOMAIN nodes_by_id

----------------------------------------------------------------------------
\* The handlers, as functions from the graph to the graph they leave behind.
\* ss = graph.steps, ns = graph.nodes, idx = graph._nodes_by_id on entry.

Graph(ss, ns) == [steps |-> ss, nodes |-> ns]

\* _handle_add_action_to_step
add_action_to_step(ss, ns, i, label, nid) ==
    Graph(SetRoots(ss, i, Append(ss[i].root_node_ids, nid)),
          Append(ns, ActionNode(label, nid, None, <<>>)))

\* _handle_add_child_action
add_child_action(ss, ns, p, label, nid) ==
    LET n1 == Append(ns, ActionNode(label, nid, p, <<>>))
    IN Graph(ss, SetChildren(n1, p, Append(NodeOf(n1, p).children_node_ids, nid)))

\* A faulty _handle_remove_step: only the step's roots are deleted, not the
\* nodes below them.
remove_step_roots_only(ss, ns, idx, i) ==
    Graph(SubSeq(ss, 1, i - 1) \o SubSeq(ss, i + 1, Len(ss)),
          DropNodes(ns, Range(ss[i].root_node_ids)))

\* _handle_remove_step (reply Yes)
remove_step(ss, ns, idx, i) ==
    LET nodes_to_delete_ids == CollectIds(ns, idx, ss[i].root_node_ids, {})
    IN Graph(SubSeq(ss, 1, i - 1) \o SubSeq(ss, i + 1, Len(ss)),
             DropNodes(ns, nodes_to_delete_ids))

\* _handle_remove_action_node (reply Yes)
remove_action_node(ss, ns, idx, n) ==
    LET a == NodeOf(ns, n)
        nodes_to_delete_ids == CollectIds(ns, idx, <<n>>, {})
        n1 == DropNodes(ns, nodes_to_delete_ids)
        p == a.parent_node_id
        s == StepWithRoot(ss, n)
    IN IF p # None
       THEN IF HasNode(idx, p) /\ n \in Range(NodeOf(ns, p).children_node_ids)
            THEN Graph(ss, SetChildren(n1, p, ListRemove(NodeOf(ns, p).children_node_ids, n)))
            ELSE Graph(ss, n1)
       ELSE IF s # 0
            THEN Graph(SetRoots(ss, s, ListRemove(ss[s].root_node_ids, n)), n1)
            ELSE Graph(ss, n1)

\* A faulty slot take-over: the new node is added at the end of the list that
\* held the target instead of replacing the target in place.
TakeSlotAtEnd(ss, ns, idx, n, nid) ==
    LET p == NodeOf(ns, n).parent_node_id
        s == StepWithRoot(ss, n)
        n1 == IF p # None /\ HasNode(idx, p)
              THEN SetChildren(ns, p, Append(ListRemove(NodeOf(ns, p).children_node_ids, n), nid))
              ELSE ns
        s1 == IF p = None /\ s # 0
              THEN SetRoots(ss, s, Append(ListRemove(ss[s].root_node_ids, n), nid))
              ELSE ss
    IN Graph(s1, SetChildren(SetParent(n1, n, nid), nid, <<n>>))

\* the part shared by _handle_add_parent_action and _handle_paste_action_as_parent:
\* the new node takes the target's slot and the target becomes its only child
TakeSlot(ss, ns, idx, n, nid) ==
    LET p == NodeOf(ns, n).parent_node_id
        s == StepWithRoot(ss, n)
        n1 == IF p # None /\ HasNode(idx, p)
              THEN SetChildren(ns, p, Replace(NodeOf(ns, p).children_node_ids, n, nid))
              ELSE ns
        s1 == IF p = None /\ s # 0
              THEN SetRoots(ss, s, Replace(ss[s].root_node_ids, n, nid))
              ELSE ss
    IN Graph(s1, SetChildren(SetParent(n1, n, nid), nid, <<n>>))

\* _handle_add_parent_action (node found, label chosen)
add_parent_action(ss, ns, idx, n, label, nid) ==
    TakeSlot(ss, Append(ns, ActionNode(label, nid, NodeOf(ns, n).parent_node_id, <<>>)),
             idx, n, nid)

\* the part shared by _handle_add_sibling_action and _handle_paste_action_as_brother
JoinSiblings(ss, ns, idx, n, nid) ==
    LET p == NodeOf(ns, n).parent_node_id
        s == StepWithRoot(ss, n)
    IN IF p # None
       THEN IF HasNode(idx, p)
            THEN Graph(ss, SetChildren(ns, p, Append(NodeOf(ns, p).children_node_ids, nid)))
            ELSE Graph(ss, ns)
       ELSE IF s # 0
            THEN Graph(SetRoots(ss, s, Append(ss[s].root_node_ids, nid)), ns)
            ELSE Graph(ss, ns)

\* _handle_add_sibling_action (node found, label chosen)
add_sibling_action(ss, ns, idx, n, label, nid) ==
    JoinSiblings(ss, Append(ns, ActionNode(label, nid, NodeOf(ns, n).parent_node_id, <<>>)),
                 idx, n, nid)

\* A faulty _handle_insert_intermediate_action: the inherited children keep
\* their old parent.
insert_intermediate_action_no_repoint(ss, ns, idx, n, label, nid) ==
    LET original_children == NodeOf(ns, n).children_node_ids
        n1 == Append(ns, ActionNode(label, nid, n, <<>>))
        n2 == SetChildren(n1, n, <<nid>>)
    IN Graph(ss, SetChildren(n2, nid, original_children))

\* _handle_insert_intermediate_action (node found with more than one child, label chosen)
insert_intermediate_action(ss, ns, idx, n, label, nid) ==
    LET original_children == NodeOf(ns, n).children_node_ids
        n1 == Append(ns, ActionNode(label, nid, n, <<>>))
        n2 == SetChildren(n1, n, <<nid>>)
        n3 == SetChildren(n2, nid, original_children)
    IN Graph(ss, SetParentOfAll(n3, idx, Range(original_children), nid))

\* A faulty _handle_remove_action_only: the promoted children are added at the
\* end of the list instead of at the removed node's position.
remove_action_only_appending(ss, ns, idx, n) ==
    LET children_to_promote == NodeOf(ns, n).children_node_ids
        n1 == SetParentOfAll(ns, idx, Range(children_to_promote),
                             NodeOf(ns, n).parent_node_id)
        p == NodeOf(n1, n).parent_node_id
        s == StepWithRoot(ss, n)
        n2 == IF p # None /\ HasNode(idx, p)
              THEN SetChildren(n1, p, ListRemove(NodeOf(n1, p).children_node_ids, n)
                                         \o children_to_promote)
              ELSE n1
        s1 == IF p = None /\ s # 0
              THEN SetRoots(ss, s, ListRemove(ss[s].root_node_ids, n) \o children_to_promote)
              ELSE ss
    IN Graph(s1, DropNodes(n2, {n}))

\* _handle_remove_action_only (reply Yes)
remove_action_only(ss, ns, idx, n) ==
    LET children_to_promote == NodeOf(ns, n).children_node_ids
        n1 == SetParentOfAll(ns, idx, Range(children_to_promote),
                             NodeOf(ns, n).parent_node_id)
        p == NodeOf(n1, n).parent_node_id
        s == StepWithRoot(ss, n)
        n2 == IF p # None /\ HasNode(idx, p)
              THEN SetChildren(n1, p, Splice(NodeOf(n1, p).children_node_ids, n,
                                             children_to_promote))
              ELSE n1
        s1 == IF p = None /\ s # 0
              THEN SetRoots(ss, s, Splice(ss[s].root_node_ids, n, children_to_promote))
              ELSE ss
    IN Graph(s1, DropNodes(n2, {n}))

\* A faulty _can_move_action_up: the parent's number of children is not checked.
can_move_action_up_any_parent(ns, idx, n) ==
    /\ NodeOf(ns, n).parent_node_id # None
    /\ HasNode(idx, NodeOf(ns, n).parent_node_id)

\* _can_move_action_up
can_move_action_up(ns, idx, n) ==
    /\ NodeOf(ns, n).parent_node_id # None
    /\ HasNode(idx, NodeOf(ns, n).parent_node_id)
    /\ Len(NodeOf(ns, NodeOf(ns, n).parent_node_id).children_node_ids) = 1

\* _can_move_action_down
can_move_action_down(ns, idx, n) == Len(NodeOf(ns, n).children_node_ids) = 1

\* A faulty _handle_move_action_up: the moved node's children are not handed
\* to its former parent.
move_action_up_dropping_children(ss, ns, idx, n) ==
    LET parent_id == NodeOf(ns, n).parent_node_id
        n1 == SetParent(ns, n, NodeOf(ns, parent_id).parent_node_id)
        n2 == SetChildren(n1, n, <<parent_id>>)
        n3 == SetParent(n2, parent_id, n)
        n5 == SetChildren(n3, parent_id, <<>>)
        g == NodeOf(n5, n).parent_node_id
        s == StepWithRoot(ss, parent_id)
    IN IF g # None
       THEN IF HasNode(idx, g)
            THEN Graph(ss, SetChildren(n5, g, Replace(NodeOf(n5, g).children_node_ids,
                                                      parent_id, n)))
            ELSE Graph(ss, n5)
       ELSE IF s # 0
            THEN Graph(SetRoots(ss, s, Replace(ss[s].root_node_ids, parent_id, n)), n5)
            ELSE Graph(ss, n5)

\* _handle_move_action_up past its guard: "A > B > C becomes B > A > C"
move_action_up(ss, ns, idx, n) ==
    LET parent_id == NodeOf(ns, n).parent_node_id
        action_children == NodeOf(ns, n).children_node_ids
        n1 == SetParent(ns, n, NodeOf(ns, parent_id).parent_node_id)
        n2 == SetChildren(n1, n, <<parent_id>>)
        n3 == SetParent(n2, parent_id, n)
        n4 == SetChildren(n3, parent_id, action_children)
        n5 == SetParentOfAll(n4, idx, Range(action_children), parent_id)
        g == NodeOf(n5, n).parent_node_id
        s == StepWithRoot(ss, parent_id)
    IN IF g # None
       THEN IF HasNode(idx, g)
            THEN Graph(ss, SetChildren(n5, g, Replace(NodeOf(n5, g).children_node_ids,
                                                      parent_id, n)))
            ELSE Graph(ss, n5)
       ELSE IF s # 0
            THEN Graph(SetRoots(ss, s, Replace(ss[s].root_node_ids, parent_id, n)), n5)
            ELSE Graph(ss, n5)

\* A faulty _handle_move_action_down: the list that held the moved node still
\* names it instead of the child that took its place.
move_action_down_keeping_slot(ss, ns, idx, n) ==
    LET child_id == NodeOf(ns, n).children_node_ids[1]
        child_children == NodeOf(ns, child_id).children_node_ids
        n1 == SetParent(ns, child_id, NodeOf(ns, n).parent_node_id)
        n2 == SetChildren(n1, child_id, <<n>>)
        n3 == SetParent(n2, n, child_id)
        n4 == SetChildren(n3, n, child_children)
    IN Graph(ss, SetParentOfAll(n4, idx, Range(child_children), n))

\* A faulty move-down that does not re-parent the child's former children.
move_action_down_leaving_grandchildren(ss, ns, idx, n) ==
    LET child_id == NodeOf(ns, n).children_node_ids[1]
        child_children == NodeOf(ns, child_id).children_node_ids
        n1 == SetParent(ns, child_id, NodeOf(ns, n).parent_node_id)
        n2 == SetChildren(n1, child_id, <<n>>)
        n3 == SetParent(n2, n, child_id)
        n5 == SetChildren(n3, n, child_children)
        p == NodeOf(n5, child_id).parent_node_id
        s == StepWithRoot(ss, n)
    IN IF p # None
       THEN IF HasNode(idx, p)
            THEN Graph(ss, SetChildren(n5, p, Replace(NodeOf(n5, p).children_node_ids,
                                                      n, child_id)))
            ELSE Graph(ss, n5)
       ELSE IF s # 0
            THEN Graph(SetRoots(ss, s, Replace(ss[s].root_node_ids, n, child_id)), n5)
            ELSE Graph(ss, n5)

\* _handle_move_action_down past its guards: "A > B > C becomes A > C > B"
move_action_down(ss, ns, idx, n) ==
    LET child_id == NodeOf(ns, n).children_node_ids[1]
        child_children == NodeOf(ns, child_id).children_node_ids
        n1 == SetParent(ns, child_id, NodeOf(ns, n).parent_node_id)
        n2 == SetChildren(n1, child_id, <<n>>)
        n3 == SetParent(n2, n, child_id)
        n4 == SetChildren(n3, n, child_children)
        n5 == SetParentOfAll(n4, idx, Range(child_children), n)
        p == NodeOf(n5, child_id).parent_node_id
        s == StepWithRoot(ss, n)
    IN IF p # None
       THEN IF HasNode(idx, p)
            THEN Graph(ss, SetChildren(n5, p, Replace(NodeOf(n5, p).children_node_ids,
                                                      n, child_id)))
            ELSE Graph(ss, n5)
       ELSE IF s # 0
            THEN Graph(SetRoots(ss, s, Replace(ss[s].root_node_ids, n, child_id)), n5)
            ELSE Graph(ss, n5)

\* the conditions of _handle_move_step, which also enable the two menu entries
can_move_step(ss, i, direction) ==
    \/ direction = "up" /\ i > 1
    \/ direction = "down" /\ i < Len(ss)

\* A faulty move that takes the step to the front or to the end of the list.
move_step_to_the_end(ss, i, direction) ==
    LET others == SubSeq(ss, 1, i - 1) \o SubSeq(ss, i + 1, Len(ss))
    IN IF direction = "up" /\ i > 1 THEN <<ss[i]>> \o others
       ELSE IF direction = "down" /\ i < Len(ss) THEN others \o <<ss[i]>>
       ELSE ss

\* _handle_move_step: steps_list.pop(i); steps_list.insert(j, step)
move_step(ss, i, direction) ==
    IF direction = "up" /\ i > 1
    THEN [j \in DOMAIN ss |-> IF j = i - 1 THEN ss[i] ELSE IF j = i THEN ss[i - 1] ELSE ss[j]]
    ELSE IF direction = "down" /\ i < Len(ss)
    THEN [j \in DOMAIN ss |-> IF j = i + 1 THEN ss[i] ELSE IF j = i THEN ss[i + 1] ELSE ss[j]]
    ELSE ss

----------------------------------------------------------------------------
\* Copy and paste.  A clipboard holds deep copies of node objects; an empty
\* sequence stands for None (`if not self._branch_clipboard` treats both alike).

\* node_id_mapping: the copied ids
MappedIds(clip) == {clip[i].node_id : i \in DOMAIN clip}

\* node_id_mapping[old]: the i-th copied node gets the i-th fresh id
NewId(clip, base, old) ==
    base - 1 + CHOOSE i \in DOMAIN clip :
                  /\ clip[i].node_id = old
                  /\ \A j \in DOMAIN clip : clip[j].node_id = old => j <= i

\* [node_id_mapping[c] for c in children if c in node_id_mapping]
RECURSIVE MapChildren(_, _, _)
MapChildren(clip, base, children) ==
    IF children = <<>> THEN <<>>
    ELSE (IF Head(children) \in MappedIds(clip)
          THEN <<NewId(clip, base, Head(children))>> ELSE <<>>)
         \o MapChildren(clip, base, Tail(children))

\* the two loops that build new_nodes in _handle_paste_step_content and
\* _handle_paste_branch_as_parent: every parent inside the copy is remapped
CloneNodes(clip, base) ==
    [i \in DOMAIN clip |->
        CopiedInstance(
            ActionNode(clip[i].action_label_to_execute, base - 1 + i,
                       IF clip[i].parent_node_id # None /\ clip[i].parent_node_id \in MappedIds(clip)
                       THEN NewId(clip, base, clip[i].parent_node_id) ELSE None,
                       MapChildren(clip, base, clip[i].children_node_ids)),
            clip[i])]

\* A faulty clone: the children lists keep the ids of the copied nodes.
CloneBranchOldChildren(clip, base, root_parent) ==
    [i \in DOMAIN clip |->
        CopiedInstance(
            ActionNode(clip[i].action_label_to_execute, base - 1 + i,
                       IF i = 1 THEN root_parent
                       ELSE IF clip[i].parent_node_id \in MappedIds(clip)
                            THEN NewId(clip, base, clip[i].parent_node_id) ELSE None,
                       clip[i].children_node_ids),
            clip[i])]

\* the same loops in _handle_paste_branch_as_child / _as_brother: the first
\* node (the branch root) gets the given parent
CloneBranch(clip, base, root_parent) ==
    [i \in DOMAIN clip |->
        CopiedInstance(
            ActionNode(clip[i].action_label_to_execute, base - 1 + i,
                       IF i = 1 THEN root_parent
                       ELSE IF clip[i].parent_node_id \in MappedIds(clip)
                            THEN NewId(clip, base, clip[i].parent_node_id) ELSE None,
                       MapChildren(clip, base, clip[i].children_node_ids)),
            clip[i])]

\* _handle_copy_step
copy_step(ss, ns, idx, i) == CollectNodes(ns, idx, ss[i].root_node_ids, {}, <<>>)

\* _handle_copy_branch
copy_branch(ns, idx, n) == CollectNodes(ns, idx, <<n>>, {}, <<>>)

\* A faulty roots loop: every pasted node is listed as a root of the step.
RECURSIVE ParentlessIdsAllNodes(_)
ParentlessIdsAllNodes(new_nodes) ==
    IF new_nodes = <<>> THEN <<>>
    ELSE <<Head(new_nodes).node_id>> \o ParentlessIdsAllNodes(Tail(new_nodes))

\* the roots loop of _handle_paste_step_content
RECURSIVE ParentlessIds(_)
ParentlessIds(new_nodes) ==
    IF new_nodes = <<>> THEN <<>>
    ELSE (IF Head(new_nodes).parent_node_id = None THEN <<Head(new_nodes).node_id>> ELSE <<>>)
         \o ParentlessIds(Tail(new_nodes))

\* _handle_paste_step_content (clipboard not empty, replacement confirmed)
paste_step_content(ss, ns, idx, clip, i, base) ==
    LET has_existing_content == ss[i].root_node_ids # <<>>
        nodes_to_remove == CollectIds(ns, idx, ss[i].root_node_ids, {})
        n1 == IF has_existing_content THEN DropNodes(ns, nodes_to_remove) ELSE ns
        new_nodes == CloneNodes(clip, base)
    IN Graph(SetRoots(ss, i, ParentlessIds(new_nodes)), n1 \o new_nodes)

\* _handle_paste_action_as_child
paste_action_as_child(ss, ns, clip, p, nid) ==
    LET n1 == Append(ns, CopiedInstance(ActionNode(clip.action_label_to_execute, nid, p,
                                                   <<>>), clip))
    IN Graph(ss, SetChildren(n1, p, Append(NodeOf(n1, p).children_node_ids, nid)))

\* _handle_paste_action_as_brother
paste_action_as_brother(ss, ns, idx, clip, n, nid) ==
    JoinSiblings(ss, Append(ns, CopiedInstance(ActionNode(clip.action_label_to_execute, nid,
                                                          NodeOf(ns, n).parent_node_id,
                                                          <<>>), clip)),
                 idx, n, nid)

\* _handle_paste_action_as_parent
paste_action_as_parent(ss, ns, idx, clip, n, nid) ==
    TakeSlot(ss, Append(ns, CopiedInstance(ActionNode(clip.action_label_to_execute, nid,
                                                      NodeOf(ns, n).parent_node_id, <<>>),
                                           clip)),
             idx, n, nid)

\* _handle_paste_branch_as_child
paste_branch_as_child(ss, ns, clip, p, base) ==
    LET n1 == ns \o CloneBranch(clip, base, p)
    IN Graph(ss, SetChildren(n1, p, Append(NodeOf(n1, p).children_node_ids, base)))

\* _handle_paste_branch_as_brother
paste_branch_as_brother(ss, ns, idx, clip, n, base) ==
    JoinSiblings(ss, ns \o CloneBranch(clip, base, NodeOf(ns, n).parent_node_id),
                 idx, n, base)

\* A faulty leaf loop: only the first leaf of the copy receives the target.
AppendToFirstLeaf(new_nodes, n) ==
    [i \in DOMAIN new_nodes |->
        IF /\ new_nodes[i].children_node_ids = <<>>
           /\ \A j \in 1..(i - 1) : new_nodes[j].children_node_ids # <<>>
        THEN [new_nodes[i] EXCEPT !.children_node_ids = <<n>>] ELSE new_nodes[i]]

\* leaf_node.children_node_ids.append(child_action_node.node_id) for every leaf
AppendToLeaves(new_nodes, n) ==
    [i \in DOMAIN new_nodes |->
        IF new_nodes[i].children_node_ids = <<>>
        THEN [new_nodes[i] EXCEPT !.children_node_ids = <<n>>] ELSE new_nodes[i]]

\* leaf_nodes[0].node_id, or None when the copy has no leaf
FirstLeaf(new_nodes) ==
    IF \E i \in DOMAIN new_nodes : new_nodes[i].children_node_ids = <<>>
    THEN new_nodes[CHOOSE i \in DOMAIN new_nodes :
            /\ new_nodes[i].children_node_ids = <<>>
            /\ \A j \in DOMAIN new_nodes : new_nodes[j].children_node_ids = <<>> => i <= j].node_id
    ELSE None

\* _handle_paste_branch_as_parent
paste_branch_as_parent(ss, ns, idx, clip, n, base) ==
    LET p == NodeOf(ns, n).parent_node_id
        s == StepWithRoot(ss, n)
        cloned == CloneNodes(clip, base)
        rooted == [cloned EXCEPT ![1].parent_node_id = p]
        n1 == IF p # None /\ HasNode(idx, p)
              THEN SetChildren(ns, p, Replace(NodeOf(ns, p).children_node_ids, n, base))
              ELSE ns
        s1 == IF p = None /\ s # 0
              THEN SetRoots(ss, s, Replace(ss[s].root_node_ids, n, base))
              ELSE ss
        n2 == SetParent(n1, n, FirstLeaf(cloned))
    IN Graph(s1, n2 \o AppendToLeaves(rooted, n))

----------------------------------------------------------------------------
\* The state machine: one action per handler of SessionFlowEditorWidget.

\* A graph the editor is loaded with: SessionActionsGraph(session_name) of a
\* new session; the first tree of step 1 of the widget's standalone test,
\* C > (D > E, F); and the chain A > B > C in one step, whose B has an instance
\* label and a field value.
EmptyGraph == Graph(<<>>, <<>>)

TestGraph ==
    Graph(<<StepDefinition(1, <<1>>)>>,
          <<ActionNode("ActionC", 1, None, <<2, 4>>),
            ActionNode("ActionD", 2, 1, <<3>>),
            ActionNode("ActionE", 3, 2, <<>>),
            ActionNode("ActionF", 4, 1, <<>>)>>)

ChainGraph ==
    Graph(<<StepDefinition(1, <<1>>)>>,
          <<ActionNode("OpenDoor", 1, None, <<2>>),
            [ActionNode("WashHands", 2, 1, <<3>>)
                EXCEPT !.instance_label = "before surgery",
                       !.custom_field_values = {<<"speed", "fast">>}],
            ActionNode("OpenDoor", 3, 2, <<>>)>>)

LoadedGraphs == {EmptyGraph, TestGraph, ChainGraph}

\* SessionActionsGraph.__init__ (validation passes) and
\* SessionFlowEditorWidget.__init__ / load_session_graph
Init ==
    /\ \E g \in LoadedGraphs :
          /\ validate_graph_integrity(g.steps, g.nodes)
          /\ steps = g.steps
          /\ nodes = g.nodes
          /\ nodes_by_id = rebuild_node_lookup(g.nodes)
          /\ next_node_id = Len(g.nodes) + 1
          /\ next_step_id = Len(g.steps) + 1
    /\ action_clipboard = <<>>
    /\ branch_clipboard = <<>>
    /\ step_clipboard = <<>>
    /\ current_session_name = "Test PDF Layout"
    /\ session_file = <<>>
    /\ load_error = NoError
    /\ field_args = <<>>
    /\ field_object = Nothing
    /\ field_error = NoError
    /\ field_default = Nothing
    /\ current_project_data = Nothing
    /\ project_file = Nothing
    /\ project_outcome = Nothing
    /\ last = [op |-> "load_session_graph", target |-> None, applied |-> TRUE]
    /\ edits = 0

\* what the editor's handlers never touch
FileVars == <<current_session_name, session_file, load_error>>

\* the field definition under construction
FieldVars == <<field_args, field_object, field_error, field_default>>

\* the project, its file and the outcome of the last project operation
ProjectVars == <<current_project_data, project_file, project_outcome>>

Ran(op, t, applied) ==
    /\ edits' = edits + 1
    /\ last' = [op |-> op, target |-> t, applied |-> applied]
    /\ UNCHANGED <<FileVars, FieldVars, ProjectVars>>

\* the handler's writes to the graph followed by graph.rebuild_node_lookup()
\* A faulty handler end that does not call rebuild_node_lookup.
Commit_without_rebuild(g) ==
    /\ steps' = g.steps
    /\ nodes' = g.nodes
    /\ nodes_by_id' = nodes_by_id

Commit(g) ==
    /\ steps' = g.steps
    /\ nodes' = g.nodes
    /\ nodes_by_id' = rebuild_node_lookup(g.nodes)

Clipboards == <<action_clipboard, branch_clipboard, step_clipboard>>

\* a handler that returns at one of its guards
Return(op, t) ==
    /\ Ran(op, t, FALSE)
    /\ UNCHANGED <<steps, nodes, nodes_by_id, Clipboards, next_node_id, next_step_id>>

\* a handler that creates k nodes
Fresh(k) ==
    /\ next_node_id' = next_node_id + k
    /\ UNCHANGED next_step_id

create_new_step ==
    /\ edits < MaxEdits
    /\ steps' = Append(steps, StepDefinition(next_step_id, <<>>))
    /\ next_step_id' = next_step_id + 1
    /\ Ran("create_new_step", next_step_id, TRUE)
    /\ UNCHANGED <<nodes, nodes_by_id, Clipboards, next_node_id>>

handle_add_step_above(i) ==
    /\ steps' = SubSeq(steps, 1, i - 1) \o <<StepDefinition(next_step_id, <<>>)>>
                  \o SubSeq(steps, i, Len(steps))
    /\ next_step_id' = next_step_id + 1
    /\ Ran("add_step_above", steps[i].step_id, TRUE)
    /\ UNCHANGED <<nodes, nodes_by_id, Clipboards, next_node_id>>

handle_add_step_below(i) ==
    /\ steps' = SubSeq(steps, 1, i) \o <<StepDefinition(next_step_id, <<>>)>>
                  \o SubSeq(steps, i + 1, Len(steps))
    /\ next_step_id' = next_step_id + 1
    /\ Ran("add_step_below", steps[i].step_id, TRUE)
    /\ UNCHANGED <<nodes, nodes_by_id, Clipboards, next_node_id>>

handle_move_step(i, direction) ==
    IF can_move_step(steps, i, direction)
    THEN /\ steps' = move_step(steps, i, direction)
         /\ Ran("move_step_" \o direction, steps[i].step_id, TRUE)
         /\ UNCHANGED <<nodes, nodes_by_id, Clipboards, next_node_id, next_step_id>>
    ELSE Return("move_step_" \o direction, steps[i].step_id)

handle_add_action_to_step(i, label) ==
    /\ Fresh(1)
    /\ Commit(add_action_to_step(steps, nodes, i, label, next_node_id))
    /\ Ran("add_action_to_step", steps[i].step_id, TRUE)
    /\ UNCHANGED Clipboards

handle_add_child_action(n, label) ==
    /\ Fresh(1)
    /\ Commit(add_child_action(steps, nodes, n, label, next_node_id))
    /\ Ran("add_child_action", n, TRUE)
    /\ UNCHANGED Clipboards

\* the child button of a card: the card's id is looked up first
handle_add_child_action_from_hover(n, label) ==
    IF HasNode(nodes_by_id, n)
    THEN handle_add_child_action(n, label)
    ELSE Return("add_child_action", n)

handle_remove_step(i) ==
    /\ Commit(remove_step(steps, nodes, nodes_by_id, i))
    /\ Ran("remove_step", steps[i].step_id, TRUE)
    /\ UNCHANGED <<Clipboards, next_node_id, next_step_id>>

handle_remove_action_node(n) ==
    /\ Commit(remove_action_node(steps, nodes, nodes_by_id, n))
    /\ Ran("remove_action_node", n, TRUE)
    /\ UNCHANGED <<Clipboards, next_node_id, next_step_id>>

handle_add_parent_action(n, label) ==
    IF HasNode(nodes_by_id, n)
    THEN /\ Fresh(1)
         /\ Commit(add_parent_action(steps, nodes, nodes_by_id, n, label, next_node_id))
         /\ Ran("add_parent_action", n, TRUE)
         /\ UNCHANGED Clipboards
    ELSE Return("add_parent_action", n)

\* A faulty handler: an id that names no node still gets its sibling, left
\* outside every step.
handle_add_sibling_action_unchecked(n, label) ==
    /\ Fresh(1)
    /\ Commit(IF HasNode(nodes_by_id, n)
              THEN add_sibling_action(steps, nodes, nodes_by_id, n, label, next_node_id)
              ELSE Graph(steps, Append(nodes, ActionNode(label, next_node_id, None, <<>>))))
    /\ Ran("add_sibling_action", n, HasNode(nodes_by_id, n))
    /\ UNCHANGED Clipboards

handle_add_sibling_action(n, label) ==
    IF HasNode(nodes_by_id, n)
    THEN /\ Fresh(1)
         /\ Commit(add_sibling_action(steps, nodes, nodes_by_id, n, label, next_node_id))
         /\ Ran("add_sibling_action", n, TRUE)
         /\ UNCHANGED Clipboards
    ELSE Return("add_sibling_action", n)

handle_insert_intermediate_action(n, label) ==
    IF HasNode(nodes_by_id, n) /\ Len(NodeOf(nodes, n).children_node_ids) > 1
    THEN /\ Fresh(1)
         /\ Commit(insert_intermediate_action(steps, nodes, nodes_by_id, n, label,
                                              next_node_id))
         /\ Ran("insert_intermediate_action", n, TRUE)
         /\ UNCHANGED Clipboards
    ELSE Return("insert_intermediate_action", n)

handle_remove_action_only(n) ==
    /\ Commit(remove_action_only(steps, nodes, nodes_by_id, n))
    /\ Ran("remove_action_only", n, TRUE)
    /\ UNCHANGED <<Clipboards, next_node_id, next_step_id>>

handle_move_action_up(n) ==
    IF can_move_action_up(nodes, nodes_by_id, n)
    THEN /\ Commit(move_action_up(steps, nodes, nodes_by_id, n))
         /\ Ran("move_action_up", n, TRUE)
         /\ UNCHANGED <<Clipboards, next_node_id, next_step_id>>
    ELSE Return("move_action_up", n)

handle_move_action_down(n) ==
    IF /\ can_move_action_down(nodes, nodes_by_id, n)
       /\ HasNode(nodes_by_id, NodeOf(nodes, n).children_node_ids[1])
    THEN /\ Commit(move_action_down(steps, nodes, nodes_by_id, n))
         /\ Ran("move_action_down", n, TRUE)
         /\ UNCHANGED <<Clipboards, next_node_id, next_step_id>>
    ELSE Return("move_action_down", n)

handle_copy_step(i) ==
    /\ step_clipboard' = copy_step(steps, nodes, nodes_by_id, i)
    /\ Ran("copy_step", steps[i].step_id, TRUE)
    /\ UNCHANGED <<steps, nodes, nodes_by_id, action_clipboard, branch_clipboard,
                   next_node_id, next_step_id>>

handle_copy_action(n) ==
    /\ action_clipboard' = <<NodeOf(nodes, n)>>
    /\ branch_clipboard' = <<>>
    /\ Ran("copy_action", n, TRUE)
    /\ UNCHANGED <<steps, nodes, nodes_by_id, step_clipboard, next_node_id, next_step_id>>

handle_copy_branch(n) ==
    /\ branch_clipboard' = copy_branch(nodes, nodes_by_id, n)
    /\ action_clipboard' = <<>>
    /\ Ran("copy_branch", n, TRUE)
    /\ UNCHANGED <<steps, nodes, nodes_by_id, step_clipboard, next_node_id, next_step_id>>

\* the step's menu offers the paste once a step has been copied; a step that
\* has content is replaced only when the question is answered with Yes
handle_paste_step_content(i, reply) ==
    /\ step_clipboard # <<>>
    /\ IF steps[i].root_node_ids # <<>> /\ reply # "Yes"
       THEN Return("paste_step_content", steps[i].step_id)
       ELSE /\ Fresh(Len(step_clipboard))
            /\ Commit(paste_step_content(steps, nodes, nodes_by_id, step_clipboard, i,
                                         next_node_id))
            /\ Ran("paste_step_content", steps[i].step_id, TRUE)
            /\ UNCHANGED Clipboards

handle_paste_action_as_child(n) ==
    /\ action_clipboard # <<>>
    /\ Fresh(1)
    /\ Commit(paste_action_as_child(steps, nodes, action_clipboard[1], n, next_node_id))
    /\ Ran("paste_action_as_child", n, TRUE)
    /\ UNCHANGED Clipboards

handle_paste_action_as_brother(n) ==
    /\ action_clipboard # <<>>
    /\ Fresh(1)
    /\ Commit(paste_action_as_brother(steps, nodes, nodes_by_id, action_clipboard[1], n,
                                      next_node_id))
    /\ Ran("paste_action_as_brother", n, TRUE)
    /\ UNCHANGED Clipboards

handle_paste_action_as_parent(n) ==
    /\ action_clipboard # <<>>
    /\ Fresh(1)
    /\ Commit(paste_action_as_parent(steps, nodes, nodes_by_id, action_clipboard[1], n,
                                     next_node_id))
    /\ Ran("paste_action_as_parent", n, TRUE)
    /\ UNCHANGED Clipboards

handle_paste_branch_as_child(n) ==
    /\ branch_clipboard # <<>>
    /\ Fresh(Len(branch_clipboard))
    /\ Commit(paste_branch_as_child(steps, nodes, branch_clipboard, n, next_node_id))
    /\ Ran("paste_branch_as_child", n, TRUE)
    /\ UNCHANGED Clipboards

handle_paste_branch_as_brother(n) ==
    /\ branch_clipboard # <<>>
    /\ Fresh(Len(branch_clipboard))
    /\ Commit(paste_branch_as_brother(steps, nodes, nodes_by_id, branch_clipboard, n,
                                      next_node_id))
    /\ Ran("paste_branch_as_brother", n, TRUE)
    /\ UNCHANGED Clipboards

handle_paste_branch_as_parent(n) ==
    /\ branch_clipboard # <<>>
    /\ Fresh(Len(branch_clipboard))
    /\ Commit(paste_branch_as_parent(steps, nodes, nodes_by_id, branch_clipboard, n,
                                     next_node_id))
    /\ Ran("paste_branch_as_parent", n, TRUE)
    /\ UNCHANGED Clipboards

\* _show_step_context_menu
StepOp ==
    /\ edits < MaxEdits
    /\ \E i \in DOMAIN steps :
        \/ handle_add_step_above(i)
        \/ handle_add_step_below(i)
        \/ \E direction \in {"up", "down"} :
              can_move_step(steps, i, direction) /\ handle_move_step(i, direction)
        \/ \E label \in PickedLabels : handle_add_action_to_step(i, label)
        \/ handle_remove_step(i)
        \/ handle_copy_step(i)
        \/ \E reply \in Replies : handle_paste_step_content(i, reply)

\* _show_action_card_context_menu and the hover buttons of a card; the menu
\* offers the two moves only when _can_move_action_up / _can_move_action_down,
\* and the child button of a card asks for an intermediate node only when the
\* card's node has more than one child
NodeOp ==
    /\ edits < MaxEdits
    /\ \E n \in Cards :
        \/ \E label \in PickedLabels :
              \/ handle_add_child_action(n, label)
              \/ handle_add_parent_action(n, label)
              \/ handle_add_sibling_action(n, label)
              \/ (Len(NodeOf(nodes, n).children_node_ids) > 1
                    /\ handle_insert_intermediate_action(n, label))
        \/ handle_remove_action_node(n)
        \/ handle_remove_action_only(n)
        \/ (can_move_action_up(nodes, nodes_by_id, n) /\ handle_move_action_up(n))
        \/ (can_move_action_down(nodes, nodes_by_id, n) /\ handle_move_action_down(n))
        \/ handle_copy_action(n)
        \/ handle_copy_branch(n)
        \/ handle_paste_action_as_child(n)
        \/ handle_paste_action_as_brother(n)
        \/ handle_paste_action_as_parent(n)
        \/ handle_paste_branch_as_child(n)
        \/ handle_paste_branch_as_brother(n)
        \/ handle_paste_branch_as_parent(n)

Next == create_new_step \/ StepOp \/ NodeOp

Spec == Init /\ [][Next]_vars

\* The handlers called on any card, whether or not the menu or the card would
\* offer them (these handlers check their precondition themselves).
DirectNodeOp ==
    /\ edits < MaxEdits
    /\ \E n \in Cards :
        \/ handle_move_action_up(n)
        \/ handle_move_action_down(n)
        \/ \E label \in PickedLabels : handle_insert_intermediate_action(n, label)

DirectNext == Next \/ DirectNodeOp

DirectSpec == Init /\ [][DirectNext]_vars

\* The hover buttons of a card hand the card's node id to their handlers; here
\* a handler gets an id that no card shows (the id of a removed node, or one
\* that was never handed out).
HoverOp ==
    /\ edits < MaxEdits
    /\ \E n \in (1..next_node_id) \ Cards : \E label \in PickedLabels :
          \/ handle_add_parent_action(n, label)
          \/ handle_add_child_action_from_hover(n, label)
          \/ handle_add_sibling_action(n, label)
          \/ handle_insert_intermediate_action(n, label)

HoverNext == Next \/ HoverOp

HoverSpec == Init /\ [][HoverNext]_vars

\* ActionInstanceCustomizerWidget: the instance label and the field values of
\* the selected card's node are written to the node object itself.

\* A faulty customizer whose write is seen through the action clipboard, as if
\* the clipboard held the node object and not a deep copy of it.
handle_instance_label_changed_shared(n, text) ==
    /\ nodes' = [i \in DOMAIN nodes |->
                    IF nodes[i].node_id = n THEN [nodes[i] EXCEPT !.instance_label = text]
                    ELSE nodes[i]]
    /\ action_clipboard' = [i \in DOMAIN action_clipboard |->
                               IF action_clipboard[i].node_id = n
                               THEN [action_clipboard[i] EXCEPT !.instance_label = text]
                               ELSE action_clipboard[i]]
    /\ Ran("instance_label_changed", n, TRUE)
    /\ UNCHANGED <<steps, nodes_by_id, branch_clipboard, step_clipboard, next_node_id,
                   next_step_id>>

\* _on_instance_label_changed
handle_instance_label_changed(n, text) ==
    /\ nodes' = [i \in DOMAIN nodes |->
                    IF nodes[i].node_id = n THEN [nodes[i] EXCEPT !.instance_label = text]
                    ELSE nodes[i]]
    /\ Ran("instance_label_changed", n, TRUE)
    /\ UNCHANGED <<steps, nodes_by_id, Clipboards, next_node_id, next_step_id>>

\* _on_value_changed: custom_field_values[field_name] = value
handle_value_changed(n, field_name, value) ==
    /\ nodes' = [i \in DOMAIN nodes |->
                    IF nodes[i].node_id = n
                    THEN [nodes[i] EXCEPT !.custom_field_values =
                             {item \in @ : item[1] # field_name} \cup {<<field_name, value>>}]
                    ELSE nodes[i]]
    /\ Ran("value_changed", n, TRUE)
    /\ UNCHANGED <<steps, nodes_by_id, Clipboards, next_node_id, next_step_id>>

InstanceOp ==
    /\ edits < MaxEdits
    /\ \E n \in Cards :
          \/ handle_instance_label_changed(n, "after surgery")
          \/ handle_value_changed(n, "speed", "slow")

\* the editor is loaded with the chain whose second node is customized
InstanceInit == Init /\ Graph(steps, nodes) = ChainGraph

InstanceNext == Next \/ InstanceOp

InstanceSpec == InstanceInit /\ [][InstanceNext]_vars

\* _handle_move_step called on any step, whether or not the menu offers it
DirectStepOp ==
    /\ edits < MaxEdits
    /\ \E i \in DOMAIN steps :
          \E direction \in {"up", "down"} : handle_move_step(i, direction)

DirectStepNext == Next \/ DirectStepOp

DirectStepSpec == Init /\ [][DirectStepNext]_vars

----------------------------------------------------------------------------
\* Session files.  from_dict is given the content of a session entry of a
\* project file: what to_dict wrote for some graph, possibly edited by hand.

\* data[key] = value
SetKey(data, key, value) ==
    [k \in DOMAIN data \cup {key} |-> IF k = key THEN value ELSE data[k]]

\* del data[key]
DelKey(data, key) == [k \in DOMAIN data \ {key} |-> data[k]]

\* the ids a hand edit may write into a file
FileIds == 1..MaxFileId \cup {EmptyId}

\* the files that differ from data in one entry of one node or step, or in
\* the order of two neighbouring nodes
Edited(data) ==
    LET ns == data.nodes
        ss == data.steps
        WithNode(k, d) == SetKey(data, "nodes", [ns EXCEPT ![k] = d])
        WithStep(j, d) == SetKey(data, "steps", [ss EXCEPT ![j] = d])
    IN {WithNode(k, SetKey(ns[k], "parentNodeId", r)) : k \in DOMAIN ns, r \in FileIds}
       \cup {WithNode(k, DelKey(ns[k], "parentNodeId")) : k \in DOMAIN ns}
       \cup {WithNode(k, SetKey(ns[k], "childrenNodeIds", Append(ns[k].childrenNodeIds, r))) :
                k \in {i \in DOMAIN ns : "childrenNodeIds" \in DOMAIN ns[i]}, r \in FileIds}
       \cup {WithNode(k, SetKey(ns[k], "nodeId", r)) : k \in DOMAIN ns, r \in FileIds}
       \cup {WithNode(k, DelKey(ns[k], "nodeId")) : k \in DOMAIN ns}
       \cup {SetKey(data, "nodes", [ns EXCEPT ![k] = ns[k + 1], ![k + 1] = ns[k]]) :
                k \in 1..(Len(ns) - 1)}
       \cup {WithStep(j, SetKey(ss[j], "rootNodeIds", Append(ss[j].rootNodeIds, r))) :
                j \in DOMAIN ss, r \in FileIds}
       \cup {WithStep(j, SetKey(ss[j], "stepId", r)) : j \in DOMAIN ss, r \in FileIds}
       \cup {WithStep(j, DelKey(ss[j], "stepId")) : j \in DOMAIN ss}
       \cup {SetKey(data, "steps", Append(ss, [stepId |-> r, rootNodeIds |-> <<>>])) :
                r \in FileIds}
       \cup {DelKey(data, "sessionName")}

\* what to_dict writes for the graphs the editor is started with
SampleFiles == {to_dict("Test PDF Layout", g.steps, g.nodes) : g \in LoadedGraphs}

\* the sample files and the files one or two edits away from them
FileContents ==
    LET once == SampleFiles \cup UNION {Edited(data) : data \in SampleFiles}
    IN once \cup UNION {Edited(data) : data \in once}

\* before any SessionActionsGraph is built from the file
FileInit ==
    /\ session_file \in FileContents
    /\ current_session_name = ""
    /\ load_error = NoError
    /\ field_args = <<>>
    /\ field_object = Nothing
    /\ field_error = NoError
    /\ field_default = Nothing
    /\ current_project_data = Nothing
    /\ project_file = Nothing
    /\ project_outcome = Nothing
    /\ steps = <<>>
    /\ nodes = <<>>
    /\ nodes_by_id = rebuild_node_lookup(<<>>)
    /\ action_clipboard = <<>>
    /\ branch_clipboard = <<>>
    /\ step_clipboard = <<>>
    /\ next_node_id = MaxFileId + 1
    /\ next_step_id = MaxFileId + 1
    /\ last = [op |-> "open", target |-> None, applied |-> TRUE]
    /\ edits = 0

\* graph = SessionActionsGraph.from_dict(data): on a ValueError no graph is
\* bound and the caller keeps what it had
deserialize ==
    /\ edits < MaxEdits
    /\ LET graph == from_dict(session_file, next_step_id)
       IN /\ load_error' = graph.error
          /\ last' = [op |-> "from_dict", target |-> None, applied |-> graph.error = NoError]
          /\ IF graph.error = NoError
             THEN /\ Commit(Graph(graph.steps, graph.nodes))
                  /\ current_session_name' = session_file.sessionName
                  /\ next_step_id' = next_step_id
                                       + MissingStepIds(Get(session_file, "steps", <<>>))
             ELSE UNCHANGED <<steps, nodes, nodes_by_id, current_session_name, next_step_id>>
    /\ edits' = edits + 1
    /\ UNCHANGED <<session_file, Clipboards, next_node_id, FieldVars, ProjectVars>>

\* data = graph.to_dict()
serialize ==
    /\ edits < MaxEdits
    /\ current_session_name # ""
    /\ session_file' = to_dict(current_session_name, steps, nodes)
    /\ last' = [op |-> "to_dict", target |-> None, applied |-> TRUE]
    /\ edits' = edits + 1
    /\ UNCHANGED <<steps, nodes, nodes_by_id, current_session_name, load_error, Clipboards,
                   next_node_id, next_step_id, FieldVars, ProjectVars>>

FileNext == deserialize \/ serialize

FileSpec == FileInit /\ [][FileNext]_vars

\* the branches of the if / elif chain of get_default_value_for_type: the
\* member each one compares with and the value it returns
DefaultBranches(self) ==
    <<[name |-> "BOOLEAN", value |-> [bool |-> FALSE]],
      [name |-> "STRING", value |-> [str |-> ""]],
      [name |-> "FLOAT", value |-> [number |-> 0]],
      [name |-> "INTEGER", value |-> [number |-> 0]],
      [name |-> "VECTOR2", value |-> [dict |-> [x |-> 0, y |-> 0]]],
      [name |-> "VECTOR3", value |-> [dict |-> [x |-> 0, y |-> 0, z |-> 0]]],
      [name |-> "RGBA", value |-> [dict |-> [r |-> 1, g |-> 1, b |-> 1, a |-> 1]]],
      [name |-> "ENUM_STRING",
       value |-> IF self.enum_values[1] # <<>> THEN [str |-> self.enum_values[1][1]]
                 ELSE [str |-> ""]],
      [name |-> "ITEM_LABEL_REFERENCE", value |-> [str |-> ""]]>>

\* `elif self.field_type == FieldType.<name>: return value`, tried in order:
\* looking up a name that FieldType does not define raises AttributeError and
\* ends the call; the final else returns None
RECURSIVE ElifChain(_, _)
ElifChain(self, branches) ==
    IF branches = <<>> THEN [error |-> NoError, value |-> Some([none |-> None])]
    ELSE IF Head(branches).name \notin DOMAIN FieldTypeMembers
    THEN [error |-> ValueError("AttributeError: FieldType." \o Head(branches).name, "",
                               None, None),
          value |-> Nothing]
    ELSE IF self.field_type = FieldTypeMembers[Head(branches).name]
    THEN [error |-> NoError, value |-> Some(Head(branches).value)]
    ELSE ElifChain(self, Tail(branches))

\* CustomFieldDefinition.get_default_value_for_type: the exception it raises
\* or the value it returns
get_default_value_for_type(self) ==
    IF self.default_value # Nothing
    THEN [error |-> NoError, value |-> self.default_value]
    ELSE ElifChain(self, DefaultBranches(self))

----------------------------------------------------------------------------
\* Field definitions built from the arguments a caller passes.

\* the arguments of the two constructors
FieldArgs ==
    [field_name : {"", "speed"},
     field_type : FieldType \cup {"Matrix"},
     default_value : {Nothing, Some([str |-> "fast"]), Some([bool |-> FALSE])},
     enum_values : {Nothing, Some(<<>>), Some(<<"slow", "fast">>), Some(<<"fast", "fast">>)}]

FieldInit ==
    /\ field_args \in FieldArgs
    /\ field_object = Nothing
    /\ field_error = NoError
    /\ field_default = Nothing
    /\ current_project_data = Nothing
    /\ project_file = Nothing
    /\ project_outcome = Nothing
    /\ current_session_name = ""
    /\ session_file = <<>>
    /\ load_error = NoError
    /\ steps = <<>>
    /\ nodes = <<>>
    /\ nodes_by_id = rebuild_node_lookup(<<>>)
    /\ action_clipboard = <<>>
    /\ branch_clipboard = <<>>
    /\ step_clipboard = <<>>
    /\ next_node_id = 1
    /\ next_step_id = 1
    /\ last = [op |-> "open", target |-> None, applied |-> TRUE]
    /\ edits = 0

\* field = cls(**field_args): on a ValueError no object is bound
Construct(op, result) ==
    /\ field_error' = result.error
    /\ field_object' = IF result.error = NoError THEN result.object ELSE field_object
    /\ last' = [op |-> op, target |-> None, applied |-> result.error = NoError]
    /\ UNCHANGED <<field_args, field_default, steps, nodes, nodes_by_id, Clipboards,
                   next_node_id, next_step_id, FileVars, ProjectVars, edits>>

construct_custom_field ==
    LET result == CustomFieldDefinition(field_args.field_name, field_args.field_type,
                                        field_args.default_value, field_args.enum_values)
    IN Construct("CustomFieldDefinition", result)

construct_sub_action_field ==
    LET result == SubActionFieldDefinition(field_args.field_name, field_args.field_type,
                                           field_args.default_value, field_args.enum_values)
    IN Construct("SubActionFieldDefinition", result)

\* value = field.get_default_value_for_type() on the CustomFieldDefinition
\* built last
resolve_default_value ==
    /\ field_object # Nothing
    /\ \/ last.op = "CustomFieldDefinition" /\ last.applied
       \/ last.op = "get_default_value_for_type"
    /\ LET result == get_default_value_for_type(field_object[1]) IN
          /\ field_error' = result.error
          /\ field_default' = result.value
          /\ last' = [op |-> "get_default_value_for_type", target |-> None,
                      applied |-> result.error = NoError]
    /\ UNCHANGED <<field_args, field_object, steps, nodes, nodes_by_id, Clipboards,
                   next_node_id, next_step_id, FileVars, ProjectVars, edits>>

FieldNext == construct_custom_field \/ construct_sub_action_field \/ resolve_default_value

FieldSpec == FieldInit /\ [][FieldNext]_vars

----------------------------------------------------------------------------
\* Properties

\* C1: referential closure.  In every state reached by structural operations,
\* a node's parent exists and lists the node among its children, and every id
\* in a node's children list names a node whose parent is that node.
ReferentialClosure ==
    \A i \in DOMAIN nodes :
        /\ nodes[i].parent_node_id # None =>
              /\ nodes[i].parent_node_id \in NodeIds(nodes)
              /\ nodes[i].node_id \in
                    Range(NodeOf(nodes, nodes[i].parent_node_id).children_node_ids)
        /\ \A c \in Range(nodes[i].children_node_ids) :
              /\ c \in NodeIds(nodes)
              /\ NodeOf(nodes, c).parent_node_id = nodes[i].node_id

\* C2: after any sequence of structural operations the graph still passes
\* integrity validation (distinct node ids, no dangling root, parent or child id).
GraphStaysValid == validate_graph_integrity(steps, nodes)

\* Vocabulary of the properties below.  Unprimed expressions are read in the
\* state a handler starts in, primed ones in the state it leaves.

ParentOf(ns, id) == NodeOf(ns, id).parent_node_id
ChildrenOf(ns, id) == NodeOf(ns, id).children_node_ids

\* the handler `op` has just run to completion on target t
Just(op, t) == last'.op = op /\ last'.target = t /\ last'.applied

\* ids reachable from id through children lists, id included
RECURSIVE Below(_, _, _)
Below(ns, frontier, seen) ==
    IF frontier \subseteq seen THEN seen
    ELSE Below(ns,
               UNION {Range(ChildrenOf(ns, x)) : x \in (frontier \ seen) \cap NodeIds(ns)},
               seen \cup frontier)

Descendants(ns, id) == Below(ns, {id}, {})

\* new is old with every entry equal to x replaced by the entries of ins
RECURSIVE Expanded(_, _, _, _)
Expanded(old, new, x, ins) ==
    IF old = <<>> THEN new = <<>>
    ELSE IF Head(old) = x
         THEN /\ Len(new) >= Len(ins)
              /\ SubSeq(new, 1, Len(ins)) = ins
              /\ Expanded(Tail(old), SubSeq(new, Len(ins) + 1, Len(new)), x, ins)
         ELSE /\ new # <<>>
              /\ Head(new) = Head(old)
              /\ Expanded(Tail(old), Tail(new), x, ins)

\* x has a slot in the list old, and new is old with y in that slot
TookSlot(old, new, x, y) ==
    /\ x \in Range(old)
    /\ Len(new) = Len(old)
    /\ \A i \in DOMAIN old : new[i] = IF old[i] = x THEN y ELSE old[i]

\* the list that holds the slot of node id: its parent's children list, or
\* the root list of its step when it has no parent
SlotList(ss, ns, id, p) ==
    IF p # None THEN ChildrenOf(ns, p) ELSE ss[StepWithRoot(ss, id)].root_node_ids

HasSlot(ss, ns, id) ==
    IF ParentOf(ns, id) # None
    THEN ParentOf(ns, id) \in NodeIds(ns) /\ id \in Range(ChildrenOf(ns, ParentOf(ns, id)))
    ELSE StepWithRoot(ss, id) # 0

\* C3: remove-action-only removes exactly N and promotes N's children, in
\* order, into N's position in the children list of N's former parent (or in
\* the root list of N's step); the chain A > B > C with A removed leaves B as
\* the root, C as B's child, two nodes and a valid graph.
RemoveOnlyPost(n) ==
    LET kids == ChildrenOf(nodes, n)
        p == ParentOf(nodes, n)
    IN /\ n \notin NodeIds(nodes')
       /\ Len(nodes') = Len(nodes) - 1
       /\ NodeIds(nodes') = NodeIds(nodes) \ {n}
       /\ \A c \in Range(kids) \cap NodeIds(nodes') : ParentOf(nodes', c) = p
       /\ HasSlot(steps, nodes, n)
       /\ IF p # None
          THEN /\ Expanded(ChildrenOf(nodes, p), ChildrenOf(nodes', p), n, kids)
               /\ steps' = steps
          ELSE LET s == StepWithRoot(steps, n)
               IN /\ Len(steps') = Len(steps)
                  /\ Expanded(steps[s].root_node_ids, steps'[s].root_node_ids, n, kids)
                  /\ \A j \in DOMAIN steps : j # s => steps'[j] = steps[j]
       /\ (Graph(steps, nodes) = ChainGraph /\ n = 1) =>
             /\ steps'[1].root_node_ids = <<2>>
             /\ ParentOf(nodes', 2) = None /\ ChildrenOf(nodes', 2) = <<3>>
             /\ ParentOf(nodes', 3) = 2
             /\ Len(nodes') = 2
             /\ validate_graph_integrity(steps', nodes')

RemoveOnlyPromotesChildren ==
    [][\A n \in NodeIds(nodes) : Just("remove_action_only", n) => RemoveOnlyPost(n)]_vars

\* C > (D > E, F) after a child was added to D and D alone was removed: E and
\* the new node stand where D stood, before F.
RemoveOnlyReached ==
    /\ last = [op |-> "remove_action_only", target |-> 2, applied |-> TRUE]
    /\ NodeIds(nodes) = {1, 3, 4, 5}
    /\ ChildrenOf(nodes, 1) = <<3, 5, 4>>
    /\ ParentOf(nodes, 3) = 1 /\ ParentOf(nodes, 5) = 1

\* C5: move-up of X under a single-child parent P swaps the two: X takes P's
\* slot, P becomes X's only child, X's former children become P's children in
\* the same order, and the set of nodes is unchanged.
MoveUpPost(x) ==
    LET p == ParentOf(nodes, x)
        g == ParentOf(nodes, p)
        kids == ChildrenOf(nodes, x)
    IN /\ NodeIds(nodes') = NodeIds(nodes) /\ Len(nodes') = Len(nodes)
       /\ ParentOf(nodes', x) = g
       /\ HasSlot(steps, nodes, p)
       /\ TookSlot(SlotList(steps, nodes, p, g), SlotList(steps', nodes', x, g), p, x)
       /\ ChildrenOf(nodes', x) = <<p>>
       /\ ParentOf(nodes', p) = x
       /\ ChildrenOf(nodes', p) = kids
       /\ \A c \in Range(kids) \cap NodeIds(nodes') : ParentOf(nodes', c) = p

MoveUpSwaps ==
    [][\A x \in NodeIds(nodes) : Just("move_action_up", x) => MoveUpPost(x)]_vars

\* the chain 1 > 2 > 3 after move-up of 2: 2 > 1 > 3
MoveUpReached ==
    /\ last = [op |-> "move_action_up", target |-> 2, applied |-> TRUE]
    /\ edits = 1
    /\ steps[1].root_node_ids = <<2>>
    /\ ParentOf(nodes, 2) = None /\ ChildrenOf(nodes, 2) = <<1>>
    /\ ParentOf(nodes, 1) = 2 /\ ChildrenOf(nodes, 1) = <<3>>
    /\ ParentOf(nodes, 3) = 1

\* C8: remove-action-and-branch deletes N and all its descendants and nothing
\* else, and leaves no reference to N in a children list or a root list.
RemoveBranchPost(n) ==
    /\ NodeIds(nodes') = NodeIds(nodes) \ Descendants(nodes, n)
    /\ \A i \in DOMAIN nodes' : n \notin Range(nodes'[i].children_node_ids)
    /\ \A j \in DOMAIN steps' : n \notin Range(steps'[j].root_node_ids)

RemoveBranchDetaches ==
    [][\A n \in NodeIds(nodes) : Just("remove_action_node", n) => RemoveBranchPost(n)]_vars

\* C9: remove-step deletes exactly the nodes reachable from the step's roots
\* and the step itself; the other steps keep their order and roots, and the
\* remaining nodes keep their links.
RemoveStepPost(i) ==
    LET forest == Below(nodes, Range(steps[i].root_node_ids), {})
    IN /\ NodeIds(nodes') = NodeIds(nodes) \ forest
       /\ steps' = SubSeq(steps, 1, i - 1) \o SubSeq(steps, i + 1, Len(steps))
       /\ \A id \in NodeIds(nodes') : NodeOf(nodes', id) = NodeOf(nodes, id)

RemoveStepFrame ==
    [][\A i \in DOMAIN steps : Just("remove_step", steps[i].step_id) => RemoveStepPost(i)]_vars

\* the step holding C > (D > E, F) removed while a second step holds a node:
\* that step and its node are what is left
RemoveStepReached ==
    /\ last = [op |-> "remove_step", target |-> 1, applied |-> TRUE]
    /\ Len(steps) = 1 /\ steps[1] = StepDefinition(2, <<5>>)
    /\ nodes = <<ActionNode("OpenDoor", 5, None, <<>>)>>

\* C10: add-parent and paste-action-as-parent on T create one node M that
\* takes T's slot, has T as its only child and is T's parent; T keeps its
\* children.
AddParentPost(t) ==
    LET p == ParentOf(nodes, t)
    IN \E m \in NodeIds(nodes') \ NodeIds(nodes) :
          /\ NodeIds(nodes') = NodeIds(nodes) \cup {m}
          /\ Len(nodes') = Len(nodes) + 1
          /\ ParentOf(nodes', m) = p
          /\ HasSlot(steps, nodes, t)
          /\ TookSlot(SlotList(steps, nodes, t, p), SlotList(steps', nodes', m, p), t, m)
          /\ ChildrenOf(nodes', m) = <<t>>
          /\ ParentOf(nodes', t) = m
          /\ ChildrenOf(nodes', t) = ChildrenOf(nodes, t)

AddParentTakesSlot ==
    [][\A t \in NodeIds(nodes) :
          (Just("add_parent_action", t) \/ Just("paste_action_as_parent", t))
             => AddParentPost(t)]_vars

\* C > (D > E, F) after add-parent on D: the new node 5 stands before F
AddParentReached ==
    /\ last = [op |-> "add_parent_action", target |-> 2, applied |-> TRUE]
    /\ ChildrenOf(nodes, 1) = <<5, 4>>
    /\ ParentOf(nodes, 5) = 1 /\ ChildrenOf(nodes, 5) = <<2>>
    /\ ParentOf(nodes, 2) = 5 /\ ChildrenOf(nodes, 2) = <<3>>

\* _handle_move_action_down as a function of the graph, guards included
MoveDownOn(g, n) ==
    LET idx == rebuild_node_lookup(g.nodes)
    IN IF /\ n \in NodeIds(g.nodes)
          /\ can_move_action_down(g.nodes, idx, n)
          /\ HasNode(idx, ChildrenOf(g.nodes, n)[1])
       THEN move_action_down(g.steps, g.nodes, idx, n)
       ELSE g

UpPreconditionFails(n) ==
    \/ ParentOf(nodes, n) = None
    \/ /\ ParentOf(nodes, n) \in NodeIds(nodes)
       /\ Len(ChildrenOf(nodes, ParentOf(nodes, n))) # 1

DownPreconditionFails(n) == Len(ChildrenOf(nodes, n)) # 1

ViolatedPreconditionIsNoOp ==
    [][\A n \in NodeIds(nodes) :
          (\/ last'.op = "move_action_up" /\ last'.target = n /\ UpPreconditionFails(n)
           \/ last'.op = "move_action_down" /\ last'.target = n /\ DownPreconditionFails(n))
             => /\ ~last'.applied
                /\ steps' = steps
                /\ nodes' = nodes
                /\ nodes_by_id' = nodes_by_id]_vars

\* move-up called on D of C > (D > E, F), whose parent has two children
PreconditionViolatedReached ==
    /\ last = [op |-> "move_action_up", target |-> 2, applied |-> FALSE]
    /\ Graph(steps, nodes) = TestGraph

\* C7: pasting a copied branch as child or as sibling adds one node per copied
\* node, with fresh pairwise distinct ids, and the copy has the shape of the
\* branch: clone(X) is the parent of clone(Y) iff X is the parent of Y, and
\* the children of clone(X) are the clones of X's children in the same order.
\* The copied branch is the node and its descendants as they were at the copy.
CopyBranchPost(n) ==
    /\ branch_clipboard' # <<>>
    /\ branch_clipboard'[1] = NodeOf(nodes, n)
    /\ {branch_clipboard'[i].node_id : i \in DOMAIN branch_clipboard'}
          = Descendants(nodes, n) \cap NodeIds(nodes)
    /\ \A i \in DOMAIN branch_clipboard' :
          branch_clipboard'[i] = NodeOf(nodes, branch_clipboard'[i].node_id)
    /\ \A i, j \in DOMAIN branch_clipboard' :
          branch_clipboard'[i].node_id = branch_clipboard'[j].node_id => i = j

PasteBranchPost ==
    LET clip == branch_clipboard
        k == Len(clip)
        old == Len(nodes)
        clone(i) == nodes'[old + i]
    IN /\ Len(nodes') = old + k
       /\ \A i \in 1..old : nodes'[i].node_id = nodes[i].node_id
       /\ \A i \in 1..k : clone(i).node_id \notin NodeIds(nodes) \cup MappedIds(clip)
       /\ \A i, j \in 1..k : clone(i).node_id = clone(j).node_id => i = j
       /\ \A i, j \in 1..k :
             (clone(j).parent_node_id = clone(i).node_id)
                <=> (clip[j].parent_node_id = clip[i].node_id)
       /\ \A i \in 1..k :
             /\ Len(clone(i).children_node_ids) = Len(clip[i].children_node_ids)
             /\ \A m \in DOMAIN clip[i].children_node_ids :
                   \E j \in 1..k :
                      /\ clip[j].node_id = clip[i].children_node_ids[m]
                      /\ clone(i).children_node_ids[m] = clone(j).node_id

BranchCopyPreservesShape ==
    [][/\ \A n \in NodeIds(nodes) : Just("copy_branch", n) => CopyBranchPost(n)
       /\ (last'.op \in {"paste_branch_as_child", "paste_branch_as_brother"})
             => PasteBranchPost]_vars

\* the branch C > (D > E, F) copied and pasted as a child of F
PasteBranchReached ==
    /\ last = [op |-> "paste_branch_as_child", target |-> 4, applied |-> TRUE]
    /\ Len(branch_clipboard) = 4
    /\ Len(nodes) = 8
    /\ ChildrenOf(nodes, 4) = <<5>>
    /\ ChildrenOf(nodes, 5) = <<6, 7>> /\ ChildrenOf(nodes, 6) = <<8>>

\* C11: insert-intermediate on T with at least two children creates one node
\* M: T's children are exactly [M], M's parent is T, M's children are T's
\* previous children in the same order and each of them has M as parent; on
\* a target with fewer than two children the graph is unchanged.
InsertIntermediatePost(t) ==
    LET kids == ChildrenOf(nodes, t)
    IN \E m \in NodeIds(nodes') \ NodeIds(nodes) :
          /\ NodeIds(nodes') = NodeIds(nodes) \cup {m}
          /\ Len(nodes') = Len(nodes) + 1
          /\ ChildrenOf(nodes', t) = <<m>>
          /\ ParentOf(nodes', m) = t
          /\ ChildrenOf(nodes', m) = kids
          /\ \A c \in Range(kids) \cap NodeIds(nodes') : ParentOf(nodes', c) = m
          /\ ParentOf(nodes', t) = ParentOf(nodes, t)
          /\ steps' = steps

InsertIntermediateInherits ==
    [][\A t \in NodeIds(nodes) :
          (last'.op = "insert_intermediate_action" /\ last'.target = t) =>
              IF Len(ChildrenOf(nodes, t)) >= 2
              THEN last'.applied /\ InsertIntermediatePost(t)
              ELSE /\ ~last'.applied
                   /\ steps' = steps /\ nodes' = nodes /\ nodes_by_id' = nodes_by_id]_vars

\* C > (D > E, F) after insert-intermediate on C: C > 5 > (D > E, F)
InsertIntermediateReached ==
    /\ last = [op |-> "insert_intermediate_action", target |-> 1, applied |-> TRUE]
    /\ ChildrenOf(nodes, 1) = <<5>>
    /\ ParentOf(nodes, 5) = 1 /\ ChildrenOf(nodes, 5) = <<2, 4>>
    /\ ParentOf(nodes, 2) = 5 /\ ParentOf(nodes, 4) = 5

\* C12: paste-branch-as-parent on T: the cloned branch root takes T's slot
\* with T's former parent as its parent, T's id is appended to the children
\* of every cloned node without children, so that T is a descendant of every
\* cloned leaf, and T's own subtree is unchanged.
PasteBranchAsParentPost(t) ==
    LET clip == branch_clipboard
        k == Len(clip)
        old == Len(nodes)
        clone(i) == nodes'[old + i]
        p == ParentOf(nodes, t)
        leaf(i) == Range(clip[i].children_node_ids) \cap MappedIds(clip) = {}
    IN /\ Len(nodes') = old + k
       /\ \A i \in 1..old : nodes'[i].node_id = nodes[i].node_id
       /\ \A i \in 1..k : clone(i).node_id \notin NodeIds(nodes)
       /\ clone(1).parent_node_id = p
       /\ HasSlot(steps, nodes, t)
       /\ TookSlot(SlotList(steps, nodes, t, p),
                   SlotList(steps', nodes', clone(1).node_id, p), t, clone(1).node_id)
       /\ \A i \in 1..k :
             IF leaf(i)
             THEN /\ clone(i).children_node_ids = <<t>>
                  /\ t \in Descendants(nodes', clone(i).node_id)
             ELSE t \notin Range(clone(i).children_node_ids)
       /\ \A d \in Descendants(nodes, t) \cap NodeIds(nodes) :
             /\ ChildrenOf(nodes', d) = ChildrenOf(nodes, d)
             /\ d # t => ParentOf(nodes', d) = ParentOf(nodes, d)

PasteBranchAsParentLinksLeaves ==
    [][\A t \in NodeIds(nodes) :
          Just("paste_branch_as_parent", t) => PasteBranchAsParentPost(t)]_vars

\* the branch C > (D > E, F) copied and pasted as parent of C: the clone of C
\* is the root of the step and both cloned leaves list C
PasteBranchAsParentReached ==
    /\ last = [op |-> "paste_branch_as_parent", target |-> 1, applied |-> TRUE]
    /\ Len(nodes) = 8
    /\ steps[1].root_node_ids = <<5>>
    /\ ChildrenOf(nodes, 7) = <<1>> /\ ChildrenOf(nodes, 8) = <<1>>
    /\ ChildrenOf(nodes, 1) = <<2, 4>>

\* C13: pasting step content into S replaces S's forest by a clone of the
\* copied forest. On a confirmed paste every node that was reachable from S's
\* roots is gone, the clones carry fresh ids and have the shape and the child
\* order of the copied nodes, S.root_node_ids lists exactly the clones without
\* a parent (the clones of the copied roots, in the copied root order), and no
\* other step and no other node changes; a declined paste changes nothing.
\* The copied forest is what copy-step put on the clipboard: the nodes
\* reachable from the roots of the copied step, its roots first and in order.
CopyStepPost(i) ==
    LET clip == step_clipboard'
        roots == steps[i].root_node_ids
    IN /\ {clip[j].node_id : j \in DOMAIN clip}
             = Below(nodes, Range(roots), {}) \cap NodeIds(nodes)
       /\ \A j \in DOMAIN clip : clip[j] = NodeOf(nodes, clip[j].node_id)
       /\ \A j, m \in DOMAIN clip : clip[j].node_id = clip[m].node_id => j = m
       /\ Len(clip) >= Len(roots)
       /\ \A j \in DOMAIN clip :
             IF j <= Len(roots)
             THEN clip[j].node_id = roots[j] /\ clip[j].parent_node_id = None
             ELSE clip[j].parent_node_id # None

PasteStepPost(i) ==
    LET clip == step_clipboard
        k == Len(clip)
        gone == Below(nodes, Range(steps[i].root_node_ids), {})
        kept == NodeIds(nodes) \ gone
        first == Len(nodes') - k
        clone(j) == nodes'[first + j]
        cloneIds == {clone(j).node_id : j \in 1..k}
        roots == steps'[i].root_node_ids
        pos(id) == CHOOSE j \in 1..k : clone(j).node_id = id
    IN /\ first >= 0
       /\ NodeIds(nodes') = kept \cup cloneIds
       /\ cloneIds \cap (NodeIds(nodes) \cup MappedIds(clip)) = {}
       /\ \A j, m \in 1..k : clone(j).node_id = clone(m).node_id => j = m
       /\ \A id \in kept : NodeOf(nodes', id) = NodeOf(nodes, id)
       /\ \A j \in 1..first : nodes'[j].node_id \in kept
       /\ \A j \in 1..k :
             /\ clone(j).action_label_to_execute = clip[j].action_label_to_execute
             /\ (clone(j).parent_node_id = None) <=> (clip[j].parent_node_id = None)
             /\ Len(clone(j).children_node_ids) = Len(clip[j].children_node_ids)
             /\ \A m \in DOMAIN clip[j].children_node_ids :
                   \E c \in 1..k :
                      /\ clip[c].node_id = clip[j].children_node_ids[m]
                      /\ clone(j).children_node_ids[m] = clone(c).node_id
       /\ \A j, m \in 1..k :
             (clone(m).parent_node_id = clone(j).node_id)
                <=> (clip[m].parent_node_id = clip[j].node_id)
       /\ Range(roots) = {id \in cloneIds : ParentOf(nodes', id) = None}
       /\ \A a, b \in DOMAIN roots : a < b => pos(roots[a]) < pos(roots[b])
       /\ Below(nodes', Range(roots), {}) = cloneIds
       /\ Len(steps') = Len(steps)
       /\ steps'[i].step_id = steps[i].step_id
       /\ \A j \in DOMAIN steps : j # i => steps'[j] = steps[j]

PasteStepReplacesForest ==
    [][\A i \in DOMAIN steps :
          /\ Just("copy_step", steps[i].step_id) => CopyStepPost(i)
          /\ (last'.op = "paste_step_content" /\ last'.target = steps[i].step_id) =>
                IF last'.applied
                THEN PasteStepPost(i)
                ELSE /\ steps[i].root_node_ids # <<>>
                     /\ steps' = steps /\ nodes' = nodes /\ nodes_by_id' = nodes_by_id]_vars

\* the step holding C > (D > E, F) copied and pasted onto itself
PasteStepReached ==
    /\ last = [op |-> "paste_step_content", target |-> 1, applied |-> TRUE]
    /\ Len(step_clipboard) = 4
    /\ NodeIds(nodes) = {5, 6, 7, 8}
    /\ steps[1].root_node_ids = <<5>>
    /\ ChildrenOf(nodes, 5) = <<6, 7>> /\ ChildrenOf(nodes, 6) = <<8>>

\* C14: round trip.  from_dict applied to what to_dict wrote for the graph in
\* memory succeeds and builds a graph with the same node ids, for each node
\* the same parent_node_id and the same children_node_ids in the same order,
\* and the same steps in the same order, each with the same step_id and the
\* same root_node_ids.
SameContent(ss1, ns1, ss2, ns2) ==
    /\ Len(ns1) = Len(ns2)
    /\ NodeIds(ns1) = NodeIds(ns2)
    /\ \A id \in NodeIds(ns1) :
          /\ ParentOf(ns1, id) = ParentOf(ns2, id)
          /\ ChildrenOf(ns1, id) = ChildrenOf(ns2, id)
    /\ Len(ss1) = Len(ss2)
    /\ \A i \in DOMAIN ss1 :
          /\ ss1[i].step_id = ss2[i].step_id
          /\ ss1[i].root_node_ids = ss2[i].root_node_ids

RoundTripPreservesGraph ==
    [][(last.op = "to_dict" /\ last'.op = "from_dict") =>
          /\ last'.applied
          /\ load_error' = NoError
          /\ current_session_name' = current_session_name
          /\ SameContent(steps, nodes, steps', nodes')]_vars

\* a file without a stepId was read, written and read again: the step keeps
\* the id it was given at the first read
RoundTripReached ==
    /\ last = [op |-> "from_dict", target |-> None, applied |-> TRUE]
    /\ edits = 3
    /\ Len(steps) = 1 /\ steps[1].step_id = MaxFileId + 1
    /\ session_file.steps[1].stepId = MaxFileId + 1
    /\ Len(nodes) = 4
    /\ ParentOf(nodes, 2) = 1 /\ ChildrenOf(nodes, 1) = <<2, 4>>

\* The files from which from_dict gets as far as the constructor: they name
\* the session and every node entry has an id and a label.
Constructible(data) ==
    /\ Get(data, "sessionName", "") # ""
    /\ \A k \in DOMAIN data.nodes :
          /\ ~Falsy(Get(data.nodes[k], "nodeId", None))
          /\ Get(data.nodes[k], "actionLabelToExecute", "") # ""

\* the node ids that two entries of the file's nodes list carry
DuplicatedIds(data) ==
    {data.nodes[i].nodeId : i \in {k \in DOMAIN data.nodes :
        \E j \in DOMAIN data.nodes : j # k /\ data.nodes[j].nodeId = data.nodes[k].nodeId}}

\* the ids that a root list, a parent field or a children list of the file
\* holds and that no node of the file carries
DanglingIds(data) ==
    LET defined == {data.nodes[k].nodeId : k \in DOMAIN data.nodes}
        roots == UNION {Range(Get(data.steps[j], "rootNodeIds", <<>>)) : j \in DOMAIN data.steps}
        parents == {Get(data.nodes[k], "parentNodeId", None) : k \in DOMAIN data.nodes}
                      \ {None, EmptyId}
        children == UNION {Range(Get(data.nodes[k], "childrenNodeIds", <<>>)) :
                              k \in DOMAIN data.nodes}
    IN (roots \cup parents \cup children) \ defined

\* from_dict raised and bound no graph: the caller has what it had before
NoGraphProduced ==
    /\ ~last'.applied
    /\ UNCHANGED <<steps, nodes, nodes_by_id, current_session_name>>

\* C15: constructing a graph from a nodes list in which two nodes carry the
\* same node_id raises a validation error that names the session and a
\* duplicated id, and produces no graph.
DuplicateIdRejected ==
    [][(last'.op = "from_dict" /\ Constructible(session_file)
          /\ DuplicatedIds(session_file) # {}) =>
             /\ NoGraphProduced
             /\ load_error'.kind = "Duplicate nodeId"
             /\ load_error'.session = session_file.sessionName
             /\ load_error'.id \in DuplicatedIds(session_file)]_vars

\* the sample file with the id of node D changed to that of node C
DuplicateIdReached ==
    /\ last = [op |-> "from_dict", target |-> None, applied |-> FALSE]
    /\ load_error = ValueError("Duplicate nodeId", "Test PDF Layout", None, 1)
    /\ Len(session_file.nodes) = 4
    /\ session_file.nodes[1].nodeId = 1 /\ session_file.nodes[2].nodeId = 1
    /\ current_session_name = "" /\ nodes = <<>>

StepIdsUnique ==
    \A i, j \in DOMAIN steps : steps[i].step_id = steps[j].step_id => i = j

\* C18: moving a step up (down) swaps it with the entry before (after) it and
\* leaves the other entries in place; moving the first step up or the last
\* step down changes nothing; in every case the steps are the same steps with
\* the same roots, and the nodes list and its nodes are unchanged.
MoveStepPost(i, direction) ==
    LET j == IF direction = "up" THEN i - 1 ELSE i + 1
    IN /\ IF j \in DOMAIN steps
          THEN /\ last'.applied
               /\ Len(steps') = Len(steps)
               /\ steps'[j] = steps[i]
               /\ steps'[i] = steps[j]
               /\ \A k \in DOMAIN steps \ {i, j} : steps'[k] = steps[k]
          ELSE /\ ~last'.applied
               /\ steps' = steps
       /\ \A k \in DOMAIN steps :
             Cardinality({m \in DOMAIN steps' : steps'[m] = steps[k]})
                = Cardinality({m \in DOMAIN steps : steps[m] = steps[k]})
       /\ nodes' = nodes
       /\ nodes_by_id' = nodes_by_id

MoveStepSwapsNeighbours ==
    [][\A i \in DOMAIN steps : \A direction \in {"up", "down"} :
          (last'.op = "move_step_" \o direction /\ last'.target = steps[i].step_id)
             => MoveStepPost(i, direction)]_vars

\* two steps were created after the loaded one and the last was moved up
MoveStepReached ==
    /\ last = [op |-> "move_step_up", target |-> 3, applied |-> TRUE]
    /\ Len(steps) = 3
    /\ steps[1].step_id = 1 /\ steps[2].step_id = 3 /\ steps[3].step_id = 2

\* C19: serialization is stable.  What to_dict returns depends on the content
\* of the graph and not on the order of its nodes list: the nodes are emitted
\* sorted by node id.  Serializing an unchanged graph again, or serializing
\* the graph that from_dict builds from a serialization, returns the same dict.
Reordered(ns) ==
    {[k \in DOMAIN ns |-> ns[p[k]]] :
        p \in {q \in [DOMAIN ns -> DOMAIN ns] : \A a, b \in DOMAIN ns : q[a] = q[b] => a = b}}

SerializePost ==
    LET data == session_file'
        again == from_dict(data, next_step_id)
    IN /\ data.sessionName = current_session_name
       /\ Len(data.nodes) = Len(nodes)
       /\ \A k \in 1..(Len(data.nodes) - 1) : data.nodes[k].nodeId < data.nodes[k + 1].nodeId
       /\ \A k \in DOMAIN data.nodes :
             /\ data.nodes[k].nodeId \in NodeIds(nodes)
             /\ Get(data.nodes[k], "parentNodeId", None) = ParentOf(nodes, data.nodes[k].nodeId)
             /\ data.nodes[k].childrenNodeIds = ChildrenOf(nodes, data.nodes[k].nodeId)
       /\ \A ns \in Reordered(nodes) : to_dict(current_session_name, steps, ns) = data
       /\ last.op = "to_dict" => data = session_file
       /\ again.error = NoError
       /\ to_dict(data.sessionName, again.steps, again.nodes) = data

SerializationIsStable == [][last'.op = "to_dict" => SerializePost]_vars

\* the sample file with the entries of C and D exchanged, read and written
SerializationReached ==
    /\ last = [op |-> "to_dict", target |-> None, applied |-> TRUE]
    /\ Len(nodes) = 4
    /\ nodes[1].node_id = 2 /\ nodes[2].node_id = 1
    /\ session_file.nodes[1].nodeId = 1 /\ session_file.nodes[2].nodeId = 2

\* C20: constructing a field definition with field_type EnumString and an
\* empty or missing enum_values list raises an error, and no field object is
\* produced.
EnumStringNeedsValues ==
    [][(/\ last'.op \in {"CustomFieldDefinition", "SubActionFieldDefinition"}
        /\ field_args.field_type = "EnumString"
        /\ field_args.enum_values \in {Nothing, Some(<<>>)}) =>
             /\ ~last'.applied
             /\ field_error' # NoError
             /\ field_object' = field_object]_vars

\* C21: default-value resolution of a custom field returns a value for every
\* field type: the explicit default when there is one, and otherwise false for
\* Boolean, "" for String, AssetPathString and ItemLabelReference, 0 for Float
\* and Integer, the zero vector for Vector2 and Vector3, {r:1,g:1,b:1,a:1} for
\* ColorRGBA, and for EnumString the first enum value or "" when there is none.
SpecifiedDefault(field) ==
    IF field.default_value # Nothing THEN field.default_value[1]
    ELSE CASE field.field_type = "boolean" -> [bool |-> FALSE]
           [] field.field_type \in {"string", "AssetPathString", "ItemLabelReference"} -> [str |-> ""]
           [] field.field_type \in {"float", "integer"} -> [number |-> 0]
           [] field.field_type = "Vector2" -> [dict |-> [x |-> 0, y |-> 0]]
           [] field.field_type = "Vector3" -> [dict |-> [x |-> 0, y |-> 0, z |-> 0]]
           [] field.field_type = "ColorRGBA" -> [dict |-> [r |-> 1, g |-> 1, b |-> 1, a |-> 1]]
           [] field.field_type = "EnumString" ->
                 IF field.enum_values[1] # <<>> THEN [str |-> field.enum_values[1][1]] ELSE [str |-> ""]
           [] OTHER -> [none |-> None]

DefaultValueResolved ==
    [][(last'.op = "get_default_value_for_type" /\ field_object[1].field_type \in FieldType) =>
            /\ last'.applied
            /\ field_error' = NoError
            /\ field_default' # Nothing
            /\ field_object[1].field_type # "Quaternion" =>
                  field_default' = Some(SpecifiedDefault(field_object[1]))]_vars

\* C22: a structural operation invoked with a node id that is not in the graph
\* (add parent, add sibling, add child from hover, insert intermediate) takes
\* its not-found exit and leaves the graph unchanged, and looking up an id that
\* is not in the graph finds no node.
HoverHandlers ==
    {"add_parent_action", "add_child_action", "add_sibling_action",
     "insert_intermediate_action"}

MoveDownPost(x) ==
    LET c == ChildrenOf(nodes, x)[1]
        p == ParentOf(nodes, x)
        kids == ChildrenOf(nodes, c)
    IN /\ NodeIds(nodes') = NodeIds(nodes) /\ Len(nodes') = Len(nodes)
       /\ ParentOf(nodes', c) = p
       /\ HasSlot(steps, nodes, x)
       /\ TookSlot(SlotList(steps, nodes, x, p), SlotList(steps', nodes', c, p), x, c)
       /\ ChildrenOf(nodes', c) = <<x>>
       /\ ParentOf(nodes', x) = c
       /\ ChildrenOf(nodes', x) = kids
       /\ \A k \in Range(kids) \cap NodeIds(nodes') : ParentOf(nodes', k) = x

MoveDownSwaps ==
    [][\A x \in NodeIds(nodes) : Just("move_action_down", x) => MoveDownPost(x)]_vars

\* the chain 1 > 2 > 3 after move-down of 2: 1 > 3 > 2
MoveDownReached ==
    /\ last = [op |-> "move_action_down", target |-> 2, applied |-> TRUE]
    /\ steps[1].root_node_ids = <<1>>
    /\ ChildrenOf(nodes, 1) = <<3>> /\ ParentOf(nodes, 3) = 1
    /\ ChildrenOf(nodes, 3) = <<2>> /\ ParentOf(nodes, 2) = 3
    /\ ChildrenOf(nodes, 2) = <<>>

\* the number of places where id stands in the list s
Occurrences(s, id) == Cardinality({k \in DOMAIN s : s[k] = id})

\* The editor after copy branch and paste branch as parent on the root C of
\* the test graph (C has two leaves below it); edits counts the handlers
\* invoked from here on.
PastedInit ==
    LET index == rebuild_node_lookup(TestGraph.nodes)
        clip == copy_branch(TestGraph.nodes, index, 1)
        g == paste_branch_as_parent(TestGraph.steps, TestGraph.nodes, index, clip, 1,
                                    Len(TestGraph.nodes) + 1)
    IN /\ steps = g.steps
       /\ nodes = g.nodes
       /\ nodes_by_id = rebuild_node_lookup(g.nodes)
       /\ next_node_id = Len(g.nodes) + 1
       /\ next_step_id = Len(g.steps) + 1
       /\ action_clipboard = <<>>
       /\ branch_clipboard = clip
       /\ step_clipboard = <<>>
       /\ current_session_name = "Test PDF Layout"
       /\ session_file = <<>>
       /\ load_error = NoError
       /\ field_args = <<>>
       /\ field_object = Nothing
       /\ field_error = NoError
       /\ field_default = Nothing
       /\ current_project_data = Nothing
       /\ project_file = Nothing
       /\ project_outcome = Nothing
       /\ last = [op |-> "paste_branch_as_parent", target |-> 1, applied |-> TRUE]
       /\ edits = 0

PastedSpec == PastedInit /\ [][Next]_vars

\* C23: every id listed in a step's root_node_ids names a node without
\* parent, and every node without parent is listed in the root_node_ids of
\* exactly one step, exactly once.
RootsAreTheParentlessNodes ==
    /\ \A r \in Range(AllRoots(steps)) :
          r \in NodeIds(nodes) /\ ParentOf(nodes, r) = None
    /\ \A id \in NodeIds(nodes) :
          ParentOf(nodes, id) = None => Occurrences(AllRoots(steps), id) = 1

\* C27: the id-to-node index is consistent when an operation has returned:
\* for every id, get_node_by_id finds the node of nodes with that id when
\* there is one and nothing otherwise.
IndexIsConsistent ==
    /\ DOMAIN nodes_by_id = NodeIds(nodes)
    /\ \A id \in 1..next_node_id :
          IF id \in NodeIds(nodes)
          THEN HasNode(nodes_by_id, id) /\ NodeOf(nodes, nodes_by_id[id]).node_id = id
          ELSE ~HasNode(nodes_by_id, id)

\* a pasted branch is found through the index and a removed node is not
IndexReached ==
    /\ last.op = "remove_action_node" /\ last.applied
    /\ ~HasNode(nodes_by_id, last.target)
    /\ \E id \in DOMAIN nodes_by_id : id > 4
    /\ branch_clipboard # <<>>

\* C28: the graph stays a forest: each node id occurs exactly once in the
\* children lists and root lists taken together, and no node is its own
\* ancestor.
Referrers(ss, ns, id) ==
    Occurrences(AllRoots(ss), id)
      + Cardinality(UNION {{<<i, k>> : k \in {j \in DOMAIN ns[i].children_node_ids :
                                                   ns[i].children_node_ids[j] = id}} :
                           i \in DOMAIN ns})

GraphStaysForest ==
    \A id \in NodeIds(nodes) :
        /\ Referrers(steps, nodes, id) = 1
        /\ id \notin Below(nodes, Range(ChildrenOf(nodes, id)), {})

\* the handlers that write a clipboard, those that paste one, and those of the
\* customizer
CopyOps == {"copy_action", "copy_branch", "copy_step"}

PasteActionOps == {"paste_action_as_child", "paste_action_as_brother", "paste_action_as_parent"}

PasteBranchOps == {"paste_branch_as_child", "paste_branch_as_brother", "paste_branch_as_parent"}

CustomizeOps == {"instance_label_changed", "value_changed"}

\* label, instance label and field values
Payload(node) ==
    <<node.action_label_to_execute, node.instance_label, node.custom_field_values>>

\* the last k nodes of nodes' are new and carry the payloads of clip, in order
CarriesPayloads(clip) ==
    /\ Len(nodes') >= Len(clip)
    /\ \A i \in DOMAIN clip :
          LET new == nodes'[Len(nodes') - Len(clip) + i]
          IN /\ Payload(new) = Payload(clip[i])
             /\ new.node_id \notin NodeIds(nodes) \cup MappedIds(clip)

\* C29: the clipboard is a snapshot isolated from the graph.  Only a copy
\* writes a clipboard: structural edits, removals, field changes and pastes
\* leave all three as they are; a copy stores the nodes as they are at that
\* moment, copy-action clears the branch clipboard and copy-branch the action
\* clipboard; a paste adds one new node per copied node, with the copied
\* node's label, instance label and field values and with an id that is
\* neither in the graph nor in the clipboard, so two pastes of one clipboard
\* give clones with the same labels and disjoint ids; a branch pasted as a
\* child or brother has the shape the branch had when it was copied.
ClipboardIsSnapshot ==
    [][/\ last'.op \notin CopyOps => Clipboards' = Clipboards
       /\ \A n \in NodeIds(nodes) :
             /\ Just("copy_action", n) =>
                    /\ action_clipboard' = <<NodeOf(nodes, n)>>
                    /\ branch_clipboard' = <<>>
                    /\ step_clipboard' = step_clipboard
             /\ Just("copy_branch", n) =>
                    /\ CopyBranchPost(n)
                    /\ action_clipboard' = <<>>
                    /\ step_clipboard' = step_clipboard
       /\ (last'.op = "copy_step" /\ last'.applied) =>
             /\ \A i \in DOMAIN step_clipboard' :
                   step_clipboard'[i] = NodeOf(nodes, step_clipboard'[i].node_id)
             /\ action_clipboard' = action_clipboard
             /\ branch_clipboard' = branch_clipboard
       /\ (last'.op \in PasteActionOps /\ last'.applied) => CarriesPayloads(action_clipboard)
       /\ (last'.op \in PasteBranchOps /\ last'.applied) => CarriesPayloads(branch_clipboard)
       /\ (last'.op \in {"paste_branch_as_child", "paste_branch_as_brother"}
             /\ last'.applied) => PasteBranchPost
       /\ (last'.op = "paste_step_content" /\ last'.applied) =>
             CarriesPayloads(step_clipboard)
       /\ (last.op \in PasteBranchOps /\ last.applied /\ last'.op \in PasteBranchOps
             /\ last'.applied) =>
             \A i \in DOMAIN branch_clipboard :
                LET first == nodes'[Len(nodes') - 2 * Len(branch_clipboard) + i]
                    second == nodes'[Len(nodes') - Len(branch_clipboard) + i]
                IN Payload(first) = Payload(second) /\ first.node_id # second.node_id]_vars

\* node 2 was copied, then given another instance label, then the copy was
\* pasted: the pasted node has the label that node 2 had when it was copied
ClipboardSnapshotReached ==
    /\ last.op \in PasteActionOps /\ last.applied
    /\ 2 \in NodeIds(nodes)
    /\ NodeOf(nodes, 2).instance_label = "after surgery"
    /\ nodes[Len(nodes)].instance_label = "before surgery"
    /\ nodes[Len(nodes)].custom_field_values = {<<"speed", "fast">>}

\* C30: a structural operation never alters the identity or payload of a node
\* that stays in the graph (node_id, action label, instance label and field
\* values are as before; only parent and children may change), the nodes it
\* creates get ids different from each other and from all ids already in the
\* graph, and a pasted single action carries the copied node's action label,
\* instance label and field values.
PayloadIsFramed ==
    [][last'.op \notin CustomizeOps =>
          /\ \A id \in NodeIds(nodes) \cap NodeIds(nodes') :
                Payload(NodeOf(nodes', id)) = Payload(NodeOf(nodes, id))
          /\ \A i, j \in DOMAIN nodes' : nodes'[i].node_id = nodes'[j].node_id => i = j
          /\ Len(nodes') - Cardinality(NodeIds(nodes) \cap NodeIds(nodes'))
                = Cardinality(NodeIds(nodes') \ NodeIds(nodes))
          /\ (last'.op \in PasteActionOps /\ last'.applied) =>
                LET new == nodes'[Len(nodes')]
                IN /\ new.node_id \notin NodeIds(nodes)
                   /\ Payload(new) = Payload(action_clipboard[1])]_vars

\* the customized node 2 of the chain was copied and pasted as a parent of
\* node 3
PayloadReached ==
    /\ last = [op |-> "paste_action_as_parent", target |-> 3, applied |-> TRUE]
    /\ Len(nodes) = 4
    /\ Payload(nodes[4]) = <<"WashHands", "before surgery", {<<"speed", "fast">>}>>
    /\ Payload(NodeOf(nodes, 3)) = <<"OpenDoor", "", {}>>
    /\ ParentOf(nodes, 3) = nodes[4].node_id

----------------------------------------------------------------------------
\* The project: ProjectData (data_models/project_data.py), the session list
\* handlers of MainWindow and ManageSessionActionsDialog, and save_project /
\* load_project (project_io/json_handler.py).
\*
\* A session name and a text typed into a QInputDialog are sequences of
\* characters, so that str.strip, str.lower and the order of sorted() are
\* computed on them.  The outcome of a call that can raise is [error |-> the
\* exception's type] or [value |-> what it returned].

RECURSIVE lstrip(_)
lstrip(text) ==
    IF text # <<>> /\ Head(text) = " " THEN lstrip(Tail(text)) ELSE text

RECURSIVE rstrip(_)
rstrip(text) ==
    IF text # <<>> /\ text[Len(text)] = " "
    THEN rstrip(SubSeq(text, 1, Len(text) - 1)) ELSE text

\* str.strip()
strip(text) == rstrip(lstrip(text))

\* a < b for two str; the characters that occur in a name are listed in
\* code point order
RECURSIVE NameBefore(_, _)
NameBefore(a, b) ==
    LET CodePointOrder == <<" ", "1", "2", "3", "4", "5", "6", "7", "8", "9", "A", "_",
                            "a", "c", "o", "p", "y">>
    IN IF b = <<>> THEN FALSE
       ELSE IF a = <<>> THEN TRUE
       ELSE IF Head(a) = Head(b) THEN NameBefore(Tail(a), Tail(b))
       ELSE (CHOOSE i \in DOMAIN CodePointOrder : CodePointOrder[i] = Head(a))
               < (CHOOSE i \in DOMAIN CodePointOrder : CodePointOrder[i] = Head(b))

RECURSIVE InsertByName(_, _)
InsertByName(sorted, g) ==
    IF sorted = <<>> THEN <<g>>
    ELSE IF ~NameBefore(g.session_name, sorted[Len(sorted)].session_name)
         THEN Append(sorted, g)
         ELSE Append(InsertByName(SubSeq(sorted, 1, Len(sorted) - 1), g),
                     sorted[Len(sorted)])

\* sorted(self.session_actions, key=lambda g: g.session_name)
RECURSIVE SortedByName(_)
SortedByName(sessions) ==
    IF sessions = <<>> THEN <<>>
    ELSE InsertByName(SortedByName(SubSeq(sessions, 1, Len(sessions) - 1)),
                      sessions[Len(sessions)])

\* the keyword arguments of a call for which the callee has no parameter: a
\* call that passes one raises TypeError before the callee's body runs
UnexpectedKeywords(parameters, keywords) == keywords \ parameters

\* SessionActionsGraph(**keywords) as the project handlers call it.  The
\* object has no notes attribute until _on_session_notes_changed sets one.
construct_session(keywords, session_name, ss, ns) ==
    IF UnexpectedKeywords({"session_name", "steps", "nodes"}, keywords) # {}
    THEN [error |-> "TypeError"]
    ELSE IF session_name = <<>> \/ ~validate_graph_integrity(ss, ns)
         THEN [error |-> "ValueError"]
         ELSE [value |-> [session_name |-> session_name, steps |-> ss, nodes |-> ns,
                          notes |-> Nothing]]

\* the while loop of _duplicate_selected_session
RECURSIVE CopyName(_, _, _, _)
CopyName(sessions, session_name, copy_name, copy_number) ==
    IF \E i \in DOMAIN sessions : sessions[i].session_name = copy_name
    THEN CopyName(sessions, session_name,
                  session_name \o <<"_", "c", "o", "p", "y", ToString(copy_number)>>,
                  copy_number + 1)
    ELSE copy_name

\* ProjectData.to_dict
ProjectData_to_dict(project) ==
    LET sorted_set(labels) ==
            SelectSeq(<<"ActivateGameObject", "DoorHandle", "DryHands", "OpenDoor",
                        "PlayAnimation", "SoapDispenser", "WashHands", "WaterTap">>,
                      LAMBDA label : label \in Range(labels))
        \* item_label_for_target is Nothing for None
        ConfiguredSubAction_to_dict(sa) ==
            LET data == [subActionLabelToUse |-> sa.sub_action_label_to_use,
                         propertyValues |-> sa.property_values]
            IN IF sa.item_label_for_target # Nothing
               THEN data @@ [itemLabelForTarget |-> sa.item_label_for_target[1]]
               ELSE data
        ActionDefinition_to_dict(definition) ==
            [helpLabel |-> definition.help_label,
             description |-> definition.description,
             subActions |-> [i \in DOMAIN definition.sub_actions |->
                                ConfiguredSubAction_to_dict(definition.sub_actions[i])]]
        sessions == SortedByName(project.session_actions)
    IN [projectMetadata |-> [projectName |-> project.project_metadata.project_name,
                             formatVersion |-> project.project_metadata.format_version],
        actionLabels |-> sorted_set(project.action_labels),
        itemLabels |-> sorted_set(project.item_labels),
        subActionLabels |-> sorted_set(project.sub_action_labels),
        subActionDefinitions |-> project.sub_action_definitions,
        actionDefinitions |-> [key \in DOMAIN project.action_definitions |->
                                  ActionDefinition_to_dict(project.action_definitions[key])],
        sessionActions |-> [i \in DOMAIN sessions |->
                               to_dict(sessions[i].session_name, sessions[i].steps,
                                       sessions[i].nodes)]]

\* ProjectData.from_dict(data, action_def_cls, session_graph_cls)
ProjectData_from_dict(data) ==
    LET ConfiguredSubAction_from_dict(d) ==
            [sub_action_label_to_use |-> Get(d, "subActionLabelToUse", ""),
             item_label_for_target |-> IF "itemLabelForTarget" \in DOMAIN d
                                       THEN Some(d.itemLabelForTarget) ELSE Nothing,
             property_values |-> Get(d, "propertyValues", {})]
        ActionDefinition_from_dict(d) ==
            [help_label |-> Get(d, "helpLabel", ""),
             description |-> Get(d, "description", ""),
             sub_actions |-> [i \in DOMAIN Get(d, "subActions", <<>>) |->
                                 ConfiguredSubAction_from_dict(d.subActions[i])]]
        definitions == Get(data, "actionDefinitions", <<>>)
        graphs == Get(data, "sessionActions", <<>>)
        built == [i \in DOMAIN graphs |-> from_dict(graphs[i], MaxFileId + 1)]
        metadata == Get(data, "projectMetadata", <<>>)
    IN IF \E i \in DOMAIN definitions :
             \E k \in DOMAIN Get(definitions[i], "subActions", <<>>) :
                Get(definitions[i].subActions[k], "subActionLabelToUse", "") = ""
       THEN [error |-> "ValueError"]
       ELSE IF \E i \in DOMAIN built : built[i].error # NoError
       THEN [error |-> "ValueError"]
       ELSE [value |->
                [project_metadata |->
                    [project_name |-> Get(metadata, "projectName", "New Project"),
                     format_version |-> Get(metadata, "formatVersion", "1.0.0")],
                 action_labels |-> Get(data, "actionLabels", <<>>),
                 item_labels |-> Get(data, "itemLabels", <<>>),
                 sub_action_labels |-> Get(data, "subActionLabels", <<>>),
                 sub_action_definitions |-> Get(data, "subActionDefinitions", <<>>),
                 action_definitions |-> [key \in DOMAIN definitions |->
                                            ActionDefinition_from_dict(definitions[key])],
                 session_actions |-> [i \in DOMAIN graphs |->
                                         [session_name |-> graphs[i].sessionName,
                                          steps |-> built[i].steps,
                                          nodes |-> built[i].nodes,
                                          notes |-> Nothing]]]]

\* create_sample_project_data of test_data_models.py, with one or two sessions
SampleProjects ==
    LET play == [sub_action_label_to_use |-> "PlayAnimation",
                 item_label_for_target |-> Some("DoorHandle"),
                 property_values |-> {<<"animationName", "Door_Open_Anim">>}]
        tap == [sub_action_label_to_use |-> "ActivateGameObject",
                item_label_for_target |-> Nothing,
                property_values |-> {<<"isActive", TRUE>>}]
        project(sessions) ==
            [project_metadata |-> [project_name |-> "Hygiene VR Test Suite",
                                   format_version |-> "1.0.0"],
             action_labels |-> <<"WashHands", "DryHands", "OpenDoor">>,
             item_labels |-> <<"SoapDispenser", "WaterTap", "DoorHandle">>,
             sub_action_labels |-> <<"ActivateGameObject", "PlayAnimation">>,
             sub_action_definitions |-> <<>>,
             action_definitions |->
                 [key \in {"OpenDoor", "WashHands"} |->
                     IF key = "OpenDoor"
                     THEN [help_label |-> "Open the main door.",
                           description |-> "", sub_actions |-> <<play>>]
                     ELSE [help_label |-> "Wash hands procedure.",
                           description |-> "", sub_actions |-> <<tap, play>>]],
             session_actions |-> sessions]
        session(name, g) == construct_session({"session_name", "steps", "nodes"}, name,
                                              g.steps, g.nodes).value
    IN {project(<<session(<<"a">>, ChainGraph)>>),
        project(<<session(<<"a">>, ChainGraph), session(<<"A">>, EmptyGraph)>>)}

\* a project handler or function has run
ProjectStep(op, t, applied, project, file, outcome) ==
    /\ current_project_data' = project
    /\ project_file' = file
    /\ project_outcome' = outcome
    /\ last' = [op |-> op, target |-> t, applied |-> applied]
    /\ edits' = edits + 1
    /\ UNCHANGED <<steps, nodes, nodes_by_id, Clipboards, next_node_id, next_step_id,
                   FileVars, FieldVars>>

\* A faulty add that looks for the typed text, not the stripped name, among
\* the session names.
add_new_session_comparing_typed_text(text) ==
    LET session_name == strip(text)
        sessions == current_project_data.session_actions
        new_session == construct_session({"session_name"}, session_name, <<>>, <<>>)
    IN IF session_name # <<>>
          /\ ~\E i \in DOMAIN sessions : sessions[i].session_name = text
       THEN ProjectStep("add_new_session", text, TRUE,
                        [current_project_data EXCEPT
                            !.session_actions = Append(sessions, new_session.value)],
                        project_file, Nothing)
       ELSE ProjectStep("add_new_session", text, FALSE, current_project_data,
                        project_file, Nothing)

\* MainWindow._add_new_session, the dialog answered with OK and text
add_new_session(text) ==
    LET session_name == strip(text)
        sessions == current_project_data.session_actions
        new_session == construct_session({"session_name"}, session_name, <<>>, <<>>)
    IN IF session_name # <<>>
          /\ ~\E i \in DOMAIN sessions : sessions[i].session_name = session_name
       THEN ProjectStep("add_new_session", text, TRUE,
                        [current_project_data EXCEPT
                            !.session_actions = Append(sessions, new_session.value)],
                        project_file, Nothing)
       ELSE ProjectStep("add_new_session", text, FALSE, current_project_data,
                        project_file, Nothing)

\* ManageSessionActionsDialog._add_new_session, the dialog answered with OK
dialog_add_new_session(text) ==
    LET lower(name) == [i \in DOMAIN name |-> IF name[i] = "A" THEN "a" ELSE name[i]]
        new_session_name == strip(text)
        sessions == current_project_data.session_actions
        new_graph == construct_session({"session_name"}, new_session_name, <<>>, <<>>)
    IN IF text # <<>> /\ new_session_name # <<>>
          /\ ~\E i \in DOMAIN sessions :
                lower(new_session_name) = lower(sessions[i].session_name)
       THEN ProjectStep("dialog_add_new_session", text, TRUE,
                        [current_project_data EXCEPT
                            !.session_actions = Append(sessions, new_graph.value)],
                        project_file, Nothing)
       ELSE ProjectStep("dialog_add_new_session", text, FALSE, current_project_data,
                        project_file, Nothing)

\* MainWindow._remove_selected_session on the i-th item of the list
remove_selected_session(i, reply) ==
    LET sessions == current_project_data.session_actions
        session_name == sessions[i].session_name
    IN IF reply = "Yes"
       THEN ProjectStep("remove_selected_session", session_name, TRUE,
                        [current_project_data EXCEPT
                            !.session_actions =
                                SelectSeq(sessions,
                                          LAMBDA s : s.session_name # session_name)],
                        project_file, Nothing)
       ELSE ProjectStep("remove_selected_session", session_name, FALSE,
                        current_project_data, project_file, Nothing)

\* MainWindow._duplicate_selected_session on the i-th item of the list
duplicate_selected_session(i) ==
    LET sessions == current_project_data.session_actions
        session_to_duplicate == sessions[i]
        session_name == session_to_duplicate.session_name
        copy_name == CopyName(sessions, session_name,
                              session_name \o <<"_", "c", "o", "p", "y">>, 1)
        duplicated_session ==
            IF session_to_duplicate.notes = Nothing
            THEN [error |-> "AttributeError"]
            ELSE construct_session({"session_name", "steps", "nodes", "notes"}, copy_name,
                                   session_to_duplicate.steps, session_to_duplicate.nodes)
    IN IF "error" \in DOMAIN duplicated_session
       THEN ProjectStep("duplicate_selected_session", session_name, FALSE,
                        current_project_data, project_file, duplicated_session)
       ELSE ProjectStep("duplicate_selected_session", session_name, TRUE,
                        [current_project_data EXCEPT
                            !.session_actions =
                                Append(sessions,
                                       [duplicated_session.value EXCEPT
                                           !.notes = session_to_duplicate.notes])],
                        project_file, Nothing)

\* MainWindow._rename_selected_session on the i-th item of the list, the
\* dialog answered with OK and text
rename_selected_session(i, text) ==
    LET sessions == current_project_data.session_actions
        old_name == sessions[i].session_name
        new_name == strip(text)
        first == CHOOSE k \in DOMAIN sessions :
                    /\ sessions[k].session_name = old_name
                    /\ \A j \in 1..(k - 1) : sessions[j].session_name # old_name
    IN IF new_name # <<>> /\ new_name # old_name
          /\ ~\E k \in DOMAIN sessions : sessions[k].session_name = new_name
       THEN ProjectStep("rename_selected_session", <<old_name, text>>, TRUE,
                        [current_project_data EXCEPT
                            !.session_actions[first].session_name = new_name],
                        project_file, Nothing)
       ELSE ProjectStep("rename_selected_session", <<old_name, text>>, FALSE,
                        current_project_data, project_file, Nothing)

\* MainWindow._on_session_notes_changed with the i-th item selected
on_session_notes_changed(i) ==
    ProjectStep("on_session_notes_changed",
                current_project_data.session_actions[i].session_name, TRUE,
                [current_project_data EXCEPT
                    !.session_actions[i].notes = Some("check the tap")],
                project_file, Nothing)

\* json_handler.save_project(project_data, filepath)
save_project ==
    /\ edits < MaxEdits
    /\ LET project_data == [current_project_data EXCEPT
                               !.project_metadata.format_version = "1.0.0"]
       IN ProjectStep("save_project", None, TRUE, project_data,
                      Some(ProjectData_to_dict(project_data)), Nothing)

\* json_handler.load_project(filepath) on the file that save_project wrote
load_project ==
    /\ edits < MaxEdits
    /\ project_file # Nothing
    /\ LET data_dict == project_file[1]
           project_data ==
               IF UnexpectedKeywords({"data", "action_def_cls", "session_graph_cls"},
                                     {"sub_action_def_cls", "action_def_cls",
                                      "session_graph_cls"}) # {}
               THEN [error |-> "TypeError"]
               ELSE ProjectData_from_dict(data_dict)
       IN IF "error" \in DOMAIN project_data
          THEN ProjectStep("load_project", None, FALSE, current_project_data,
                           project_file, project_data)
          ELSE ProjectStep("load_project", None, TRUE, current_project_data,
                           project_file,
                           [value |-> [project_data.value EXCEPT
                                          !.project_metadata.format_version = "1.0.0"]])

ProjectInit ==
    /\ current_project_data \in SampleProjects
    /\ project_file = Nothing
    /\ project_outcome = Nothing
    /\ field_args = <<>>
    /\ field_object = Nothing
    /\ field_error = NoError
    /\ field_default = Nothing
    /\ current_session_name = ""
    /\ session_file = <<>>
    /\ load_error = NoError
    /\ steps = <<>>
    /\ nodes = <<>>
    /\ nodes_by_id = rebuild_node_lookup(<<>>)
    /\ action_clipboard = <<>>
    /\ branch_clipboard = <<>>
    /\ step_clipboard = <<>>
    /\ next_node_id = 1
    /\ next_step_id = 1
    /\ last = [op |-> "open", target |-> None, applied |-> TRUE]
    /\ edits = 0

\* the session panel's buttons and the dialog's Add button; Typed: the texts
\* typed into the name dialogs
SessionOp ==
    /\ edits < MaxEdits
    /\ LET Typed == {<<>>} \cup {<<c>> : c \in {" ", "a", "A"}}
                           \cup {<<c, d>> : c \in {" ", "a", "A"}, d \in {" ", "a"}}
       IN
       \/ \E text \in Typed : add_new_session(text) \/ dialog_add_new_session(text)
       \/ \E i \in DOMAIN current_project_data.session_actions :
             \/ \E reply \in Replies : remove_selected_session(i, reply)
             \/ duplicate_selected_session(i)
             \/ \E text \in Typed : rename_selected_session(i, text)
             \/ on_session_notes_changed(i)

ProjectNext == SessionOp \/ save_project \/ load_project

ProjectSpec == ProjectInit /\ [][ProjectNext]_vars

\* the session names of the project
SessionNames(project) ==
    {project.session_actions[i].session_name : i \in DOMAIN project.session_actions}

\* C24: session names are unique within a project: after every add, rename,
\* duplicate and remove of a session no two graphs of session_actions have the
\* same session_name and no session_name is empty, and an add or a rename to
\* a name that is in use is rejected and leaves session_actions as it was.
SessionNamesStayUnique ==
    [][/\ \A i, j \in DOMAIN current_project_data'.session_actions :
             /\ current_project_data'.session_actions[i].session_name # <<>>
             /\ current_project_data'.session_actions[i].session_name
                   = current_project_data'.session_actions[j].session_name => i = j
       /\ (last'.op \in {"add_new_session", "dialog_add_new_session"}
             /\ strip(last'.target) \in SessionNames(current_project_data)) =>
             /\ ~last'.applied
             /\ current_project_data'.session_actions = current_project_data.session_actions
       /\ (last'.op = "rename_selected_session"
             /\ strip(last'.target[2]) \in SessionNames(current_project_data)) =>
             /\ ~last'.applied
             /\ current_project_data'.session_actions
                   = current_project_data.session_actions]_vars

\* with the sessions a and A in the project, the typed text " a" was rejected
AddRejectedReached ==
    /\ last = [op |-> "add_new_session", target |-> <<" ", "a">>, applied |-> FALSE]
    /\ current_project_data # Nothing
    /\ Len(current_project_data.session_actions) = 2
    /\ <<"a">> \in SessionNames(current_project_data)

\* C25: saving a populated project with save_project and reading it back with
\* load_project succeeds and gives a project with the same label lists, the
\* same number of action definitions and of session graphs, and for each
\* session graph the same name, the same number of nodes and for each node
\* id the same action label and children ids.
ProjectRoundTrips ==
    [][(last.op = "save_project" /\ last'.op = "load_project" /\ edits' = edits + 1) =>
          /\ "value" \in DOMAIN project_outcome'
          /\ LET original == current_project_data
                 loaded == project_outcome'.value
             IN /\ Range(loaded.action_labels) = Range(original.action_labels)
                /\ Range(loaded.item_labels) = Range(original.item_labels)
                /\ Range(loaded.sub_action_labels) = Range(original.sub_action_labels)
                /\ DOMAIN loaded.action_definitions = DOMAIN original.action_definitions
                /\ Len(loaded.session_actions) = Len(original.session_actions)
                /\ \A g \in Range(original.session_actions) :
                      \E h \in Range(loaded.session_actions) :
                         /\ h.session_name = g.session_name
                         /\ Len(h.nodes) = Len(g.nodes)
                         /\ \A id \in NodeIds(g.nodes) :
                               /\ id \in NodeIds(h.nodes)
                               /\ NodeOf(h.nodes, id).action_label_to_execute
                                     = NodeOf(g.nodes, id).action_label_to_execute
                               /\ ChildrenOf(h.nodes, id) = ChildrenOf(g.nodes, id)]_vars

====
